---------------------------- MODULE Spec2Model ----------------------------
(***************************************************************************)
(* A model of ten parts of the Stratum V2 stack:                           *)
(*   - the translator bridge's NextMiningNotify (the SetNewPrevHash +      *)
(*     NewExtendedMiningJob join that mints a V1 mining.notify),           *)
(*   - the Sv2Frame size hint / from_bytes / from_message of framing-sv2,  *)
(*   - the codec-sv2 handshake State and its step_0 .. step_4,             *)
(*   - the noise-sv2 handshake and the two transport codecs it yields,     *)
(*   - binary-sv2's to_bytes / from_bytes over the primitive data types,   *)
(*   - the mining proxy's job id -> upstream id map, once with add_job_id  *)
(*     as one step and once with each of its lock sections as a step,      *)
(*   - the sending side of Sv2Frame: from_message and serialize,           *)
(*   - the SetupConnection and job declaration message handlers,           *)
(*   - the Stratum V1 server-to-client messages and the translator's       *)
(*     subscribe response,                                                 *)
(*   - the future / active flag of NewMiningJob and NewExtendedMiningJob.  *)
(* Strings and byte strings are sequences of byte values (0..255).         *)
(***************************************************************************)
EXTENDS Integers, Sequences, FiniteSets, TLC

VARIABLES
    nmn,          \* the NextMiningNotify value: its two Option slots
    nmn_calls,    \* history: which of the two setters has been called
    notify_res,   \* outcome of the last create_notify call
    nmn_last      \* history: the last call made on the NextMiningNotify, its
                  \* argument, and the job_id its job slot held before the call

VARIABLES
    bytes,        \* the bytes received so far for the frame being decoded
    hint,         \* Sv2Frame::size_hint of `bytes`, once asked for
    frame_res,    \* Sv2Frame::from_bytes of `bytes`, once asked for
    msg_frame     \* result of the last Sv2Frame::from_message call

VARIABLES
    state,        \* the codec State value held by the connection
    step_res      \* the last call made on it and what the call returned

VARIABLES
    initiator,        \* the noise Initiator of test_1 (None until constructed)
    responder,        \* the noise Responder of test_1 (None until constructed)
    first_message,    \* what initiator.step_0 returned
    second_message,   \* the message responder.step_1 returned
    codec_initiator,  \* the NoiseCodec initiator.step_2 returned
    codec_responder,  \* the NoiseCodec responder.step_1 returned
    buffer,           \* the `message` of test_1: the buffer handed to encrypt and decrypt
    plain,            \* history: the plaintext last put into `buffer`
    noise_res         \* the last noise call and what it returned

VARIABLES
    expected,         \* the value last handed to to_bytes or to a constructor
    encoded,          \* the byte buffer to_bytes produced or the peer sent
    binary_res        \* the last binary-sv2 call and what it returned

VARIABLES
    snd_frame,    \* the Sv2Frame the sender holds, if any
    snd_args,     \* how it was built: the arguments of from_message
    snd_out       \* the last serialize call: its result and dst afterwards

VARIABLES
    setup_res,    \* the last SetupConnection handled and the answer to it
    jd_res        \* per role, the last job-declaration message handled

VARIABLES
    v1_call,              \* the last V1 conversion: its input, what the input
                          \* was itself converted from, and its result
    downstream_sv1,       \* the counters behind new_extranonce() and
                          \* new_subscription_id()
    subscribe_responses   \* history: the subscribe responses sent so far

VARIABLES
    add_call,     \* the thread running add_job_id: where it is between its two
                  \* safe_lock calls, its arguments, the map it started from
    observer      \* what another thread last read from the map, and the
                  \* add_job_id call that was under way when it read

VARIABLES
    mining_job,   \* a NewMiningJob and a NewExtendedMiningJob held by a channel
    job_call      \* the last call made on one of them, the jobs before the
                  \* call, its argument and what it returned

VARIABLES
    JOB_ID_TO_UPSTREAM_ID,  \* the translator's global job map and its mutex
    proxy_res               \* the last add_job_id / upstream_from_job_id call

bridge_vars == <<nmn, nmn_calls, notify_res, nmn_last>>
frame_vars == <<bytes, hint, frame_res, msg_frame>>
codec_vars == <<state, step_res>>
noise_vars == <<initiator, responder, first_message, second_message,
                codec_initiator, codec_responder, buffer, plain, noise_res>>
binary_vars == <<expected, encoded, binary_res>>
proxy_vars == <<JOB_ID_TO_UPSTREAM_ID, proxy_res>>
send_vars == <<snd_frame, snd_args, snd_out>>
handler_vars == <<setup_res, jd_res>>
sv1_vars == <<v1_call, downstream_sv1, subscribe_responses>>
job_vars == <<mining_job, job_call>>
lock_vars == <<add_call, observer>>

vars == <<bridge_vars, frame_vars, codec_vars, noise_vars, binary_vars, proxy_vars,
          send_vars,
          handler_vars,
          sv1_vars,
          job_vars,
          lock_vars>>

None == [tag |-> "None"]
Some(v) == [tag |-> "Some", val |-> v]
Panic(line) == [tag |-> "Panic", line |-> line]
NotCalled == [tag |-> "NotCalled"]

(***************************************************************************)
(* Byte and string helpers.                                                *)
(***************************************************************************)

\* core::str::from_utf8: the well-formed UTF-8 byte sequences (Unicode
\* table 3-7); the number of bytes of the scalar value that starts at s[i],
\* 0 when no well-formed scalar value starts there.
Utf8Width(s, i) ==
    LET n == Len(s)
        b0 == s[i]
        Cont(j, lo, hi) == j <= n /\ s[j] >= lo /\ s[j] <= hi
    IN  IF b0 < 128 THEN 1
        ELSE IF b0 >= 194 /\ b0 <= 223
             THEN IF Cont(i + 1, 128, 191) THEN 2 ELSE 0
        ELSE IF b0 = 224
             THEN IF Cont(i + 1, 160, 191) /\ Cont(i + 2, 128, 191) THEN 3 ELSE 0
        ELSE IF (b0 >= 225 /\ b0 <= 236) \/ b0 = 238 \/ b0 = 239
             THEN IF Cont(i + 1, 128, 191) /\ Cont(i + 2, 128, 191) THEN 3 ELSE 0
        ELSE IF b0 = 237
             THEN IF Cont(i + 1, 128, 159) /\ Cont(i + 2, 128, 191) THEN 3 ELSE 0
        ELSE IF b0 = 240
             THEN IF Cont(i + 1, 144, 191) /\ Cont(i + 2, 128, 191)
                     /\ Cont(i + 3, 128, 191) THEN 4 ELSE 0
        ELSE IF b0 >= 241 /\ b0 <= 243
             THEN IF Cont(i + 1, 128, 191) /\ Cont(i + 2, 128, 191)
                     /\ Cont(i + 3, 128, 191) THEN 4 ELSE 0
        ELSE IF b0 = 244
             THEN IF Cont(i + 1, 128, 143) /\ Cont(i + 2, 128, 191)
                     /\ Cont(i + 3, 128, 191) THEN 4 ELSE 0
        ELSE 0

RECURSIVE Utf8From(_, _)
Utf8From(s, i) ==
    IF i > Len(s) THEN TRUE
    ELSE LET w == Utf8Width(s, i)
         IN  IF w = 0 THEN FALSE ELSE Utf8From(s, i + w)

\* std::str::from_utf8(bytes).is_ok()
from_utf8_ok(v) == Utf8From(v, 1)

IsHexDigit(c) == (c >= 48 /\ c <= 57) \/ (c >= 97 /\ c <= 102) \/ (c >= 65 /\ c <= 70)

HexVal(c) ==
    IF c >= 48 /\ c <= 57 THEN c - 48
    ELSE IF c >= 97 /\ c <= 102 THEN c - 87
    ELSE c - 55

\* HexBytes::try_from(&str): hex-decodes the string; an odd length or a
\* character that is no hex digit is an error.
HexBytes_try_from(str) ==
    IF Len(str) % 2 # 0 \/ \E i \in 1..Len(str) : ~IsHexDigit(str[i])
    THEN [tag |-> "Err"]
    ELSE [tag |-> "Ok",
          val |-> [i \in 1..(Len(str) \div 2) |->
                     16 * HexVal(str[2 * i - 1]) + HexVal(str[2 * i])]]

DigitChar(d) == IF d < 10 THEN 48 + d ELSE 87 + d

\* u32::to_string(): decimal digits, no leading zeros.
RECURSIVE to_string(_)
to_string(n) ==
    IF n < 10 THEN <<DigitChar(n)>>
    ELSE Append(to_string(n \div 10), DigitChar(n % 10))

\* format!("{:x}", n): lower-case hex digits, no leading zeros.
RECURSIVE format_x(_)
format_x(n) ==
    IF n < 16 THEN <<DigitChar(n)>>
    ELSE Append(format_x(n \div 16), DigitChar(n % 16))

\* HexU32Be::try_from(&str): the string read as a base-16 number.
RECURSIVE from_str_radix_16(_)
from_str_radix_16(str) ==
    IF Len(str) = 0 THEN 0
    ELSE 16 * from_str_radix_16(SubSeq(str, 1, Len(str) - 1)) + HexVal(str[Len(str)])

HexU32Be_try_from(str) ==
    IF Len(str) = 0 \/ \E i \in 1..Len(str) : ~IsHexDigit(str[i])
    THEN [tag |-> "Err"]
    ELSE [tag |-> "Ok", val |-> from_str_radix_16(str)]

(***************************************************************************)
(* The messages the bridge receives, drawn from small sets.                *)
(***************************************************************************)

\* bytes of a U256
U256Len == 32

\* '4' repeated: ASCII hex, as in the repository's tests
U256Hex == [i \in 1..U256Len |-> 52]
\* '5' repeated
U256Hex5 == [i \in 1..U256Len |-> 53]
\* a raw hash: its first byte can start no UTF-8 sequence
U256Raw == [i \in 1..U256Len |-> IF i = 1 THEN 255 ELSE 0]

\* coinbase parts: ASCII hex "01", ASCII that is no hex "0g", raw bytes 01 ff
CoinbaseHex == <<48, 49>>
CoinbaseNotHex == <<48, 103>>
CoinbaseRaw == <<1, 255>>

JobIds == {1, 79}

SetNewPrevHashMsgs ==
    [job_id : JobIds, prev_hash : {U256Hex, U256Raw},
     min_ntime : {1347323577}, nbits : {472564911}]

\* the job is a future job when min_ntime is empty, an active one otherwise
NewExtendedMiningJobMsgs ==
    [job_id : JobIds, min_ntime : {None, Some(1347323577)}, version : {2},
     merkle_path : {<<>>, <<U256Hex>>, <<U256Hex, U256Hex5>>, <<U256Hex, U256Raw>>},
     coinbase_tx_prefix : {CoinbaseHex, CoinbaseNotHex, CoinbaseRaw},
     coinbase_tx_suffix : {CoinbaseHex, CoinbaseRaw}]

(***************************************************************************)
(* NextMiningNotify                                                        *)
(***************************************************************************)

\* NextMiningNotify::new
NextMiningNotify_new == [set_new_prev_hash |-> None, new_extended_mining_job |-> None]

\* the merkle_path loop of create_notify: the first path that is not UTF-8
\* (line 117) or no hex string (line 118) panics
RECURSIVE merkle_branch_from(_, _, _)
merkle_branch_from(paths, i, acc) ==
    IF i > Len(paths) THEN [tag |-> "Ok", val |-> acc]
    ELSE IF ~from_utf8_ok(paths[i]) THEN Panic(117)
    ELSE LET h == HexBytes_try_from(paths[i])
         IN  IF h.tag = "Err" THEN Panic(118)
             ELSE merkle_branch_from(paths, i + 1, Append(acc, h.val))

create_notify_bothset(self) ==
    self.set_new_prev_hash.tag = "Some" /\ self.new_extended_mining_job.tag = "Some"

\* create_notify with the job_id taken from the job instead of the prev hash
create_notify_job_id_of_job(self) ==
    IF create_notify_bothset(self) THEN
        LET new_prev_hash == self.set_new_prev_hash.val
            new_job == self.new_extended_mining_job.val
            cb1 == new_job.coinbase_tx_prefix
            cb2 == new_job.coinbase_tx_suffix
            coin_base1 == HexBytes_try_from(cb1)
            coin_base2 == HexBytes_try_from(cb2)
            merkle_branch == merkle_branch_from(new_job.merkle_path, 1, <<>>)
            version == HexU32Be_try_from(format_x(new_job.version))
            bits == HexU32Be_try_from(format_x(new_prev_hash.nbits))
            time == HexU32Be_try_from(format_x(new_prev_hash.min_ntime))
        IN  IF ~from_utf8_ok(cb1) THEN Panic(98)
            ELSE IF coin_base1.tag = "Err" THEN Panic(99)
            ELSE IF ~from_utf8_ok(cb2) THEN Panic(105)
            ELSE IF coin_base2.tag = "Err" THEN Panic(106)
            ELSE IF merkle_branch.tag = "Panic" THEN merkle_branch
            ELSE IF version.tag = "Err" THEN Panic(125)
            ELSE IF bits.tag = "Err" THEN Panic(131)
            ELSE IF time.tag = "Err" THEN Panic(137)
            ELSE Some([job_id |-> to_string(new_job.job_id),
                       prev_hash |-> new_prev_hash.prev_hash,
                       coin_base1 |-> coin_base1.val,
                       coin_base2 |-> coin_base2.val,
                       merkle_branch |-> merkle_branch.val,
                       version |-> version.val,
                       bits |-> bits.val,
                       time |-> time.val,
                       clean_jobs |-> FALSE])
    ELSE None

\* NextMiningNotify::create_notify: Some(notify), None, or the panic of an
\* unwrap() on the way to the notify.
create_notify(self) ==
    IF create_notify_bothset(self) THEN
        LET new_prev_hash == self.set_new_prev_hash.val
            new_job == self.new_extended_mining_job.val
            cb1 == new_job.coinbase_tx_prefix
            cb2 == new_job.coinbase_tx_suffix
            coin_base1 == HexBytes_try_from(cb1)
            coin_base2 == HexBytes_try_from(cb2)
            merkle_branch == merkle_branch_from(new_job.merkle_path, 1, <<>>)
            version == HexU32Be_try_from(format_x(new_job.version))
            bits == HexU32Be_try_from(format_x(new_prev_hash.nbits))
            time == HexU32Be_try_from(format_x(new_prev_hash.min_ntime))
        IN  IF ~from_utf8_ok(cb1) THEN Panic(98)
            ELSE IF coin_base1.tag = "Err" THEN Panic(99)
            ELSE IF ~from_utf8_ok(cb2) THEN Panic(105)
            ELSE IF coin_base2.tag = "Err" THEN Panic(106)
            ELSE IF merkle_branch.tag = "Panic" THEN merkle_branch
            ELSE IF version.tag = "Err" THEN Panic(125)
            ELSE IF bits.tag = "Err" THEN Panic(131)
            ELSE IF time.tag = "Err" THEN Panic(137)
            ELSE Some([job_id |-> to_string(new_prev_hash.job_id),
                       prev_hash |-> new_prev_hash.prev_hash,
                       coin_base1 |-> coin_base1.val,
                       coin_base2 |-> coin_base2.val,
                       merkle_branch |-> merkle_branch.val,
                       version |-> version.val,
                       bits |-> bits.val,
                       time |-> time.val,
                       clean_jobs |-> FALSE])
    ELSE None

\* the job_id of the job held in the new_extended_mining_job slot, if any
job_id_held(self) ==
    IF self.new_extended_mining_job = None THEN None
    ELSE Some(self.new_extended_mining_job.val.job_id)

LastCall(op, p, j) ==
    [op |-> op, set_new_prev_hash |-> p, new_extended_mining_job |-> j,
     job_id_before |-> IF op = "new_extended_mining_job_msg" THEN job_id_held(nmn)
                       ELSE None]

BridgeStart ==
    /\ nmn = NextMiningNotify_new
    /\ nmn_calls = [set_new_prev_hash |-> FALSE, new_extended_mining_job |-> FALSE]
    /\ notify_res = NotCalled
    /\ nmn_last = LastCall("new", None, None)

\* NextMiningNotify::set_new_prev_hash_msg
set_new_prev_hash_msg(m) ==
    /\ nmn' = [nmn EXCEPT !.set_new_prev_hash = Some(m)]
    /\ nmn_calls' = [nmn_calls EXCEPT !.set_new_prev_hash = TRUE]
    /\ UNCHANGED notify_res

\* as new_extended_mining_job_msg, but a job already held is kept
new_extended_mining_job_msg_keeps_first(m) ==
    /\ nmn' = IF nmn.new_extended_mining_job = None
              THEN [nmn EXCEPT !.new_extended_mining_job = Some(m)]
              ELSE nmn
    /\ nmn_calls' = [nmn_calls EXCEPT !.new_extended_mining_job = TRUE]
    /\ UNCHANGED notify_res

\* NextMiningNotify::new_extended_mining_job_msg
new_extended_mining_job_msg(m) ==
    /\ nmn' = [nmn EXCEPT !.new_extended_mining_job = Some(m)]
    /\ nmn_calls' = [nmn_calls EXCEPT !.new_extended_mining_job = TRUE]
    /\ UNCHANGED notify_res

\* a call of create_notify(&self); after a panic the bridge makes no further call
CreateNotify ==
    /\ notify_res.tag # "Panic"
    /\ notify_res' = create_notify(nmn)
    /\ nmn_last' = LastCall("create_notify", None, None)
    /\ UNCHANGED <<nmn, nmn_calls>>
    /\ UNCHANGED <<frame_vars, codec_vars, noise_vars, binary_vars, proxy_vars, send_vars, handler_vars, sv1_vars, job_vars, lock_vars>>

SetNewPrevHashStep ==
    /\ notify_res.tag # "Panic"
    /\ \E m \in SetNewPrevHashMsgs :
          /\ set_new_prev_hash_msg(m)
          /\ nmn_last' = LastCall("set_new_prev_hash_msg", Some(m), None)
    /\ UNCHANGED <<frame_vars, codec_vars, noise_vars, binary_vars, proxy_vars, send_vars, handler_vars, sv1_vars, job_vars, lock_vars>>

NewExtendedMiningJobStep ==
    /\ notify_res.tag # "Panic"
    /\ \E m \in NewExtendedMiningJobMsgs :
          /\ new_extended_mining_job_msg(m)
          /\ nmn_last' = LastCall("new_extended_mining_job_msg", None, Some(m))
    /\ UNCHANGED <<frame_vars, codec_vars, noise_vars, binary_vars, proxy_vars, send_vars, handler_vars, sv1_vars, job_vars, lock_vars>>

BridgeNext ==
    \/ SetNewPrevHashStep
    \/ NewExtendedMiningJobStep
    \/ CreateNotify

(***************************************************************************)
(* Sizes.  A usize is 64 bits wide and TLC's integers are not, so a usize  *)
(* n is the record [hi, lo] with n = hi * 2^24 + lo and lo < 2^24.         *)
(***************************************************************************)

TwoPow24 == 16777216

USizeOf(n) == [hi |-> n \div TwoPow24, lo |-> n % TwoPow24]

USizeAdd(a, n) == [hi |-> a.hi + ((a.lo + n) \div TwoPow24), lo |-> (a.lo + n) % TwoPow24]

\* `x as u32` for a usize x: the low 32 bits
as_u32(a) == [hi |-> a.hi % 256, lo |-> a.lo]

(***************************************************************************)
(* Header (framing-sv2/src/header.rs): 6 bytes, little-endian:             *)
(*   extension_type u16, msg_type u8, msg_length u24.                      *)
(***************************************************************************)

Header_SIZE == 6

\* Header::from_bytes: an error for fewer than Header::SIZE bytes
Header_from_bytes(b) ==
    IF Len(b) < Header_SIZE
    THEN [tag |-> "Err", err |-> "UnexpectedHeaderLength"]
    ELSE [tag |-> "Ok",
          val |-> [extension_type |-> b[1] + 256 * b[2],
                   msg_type |-> b[3],
                   msg_length |-> b[4] + 256 * b[5] + 65536 * b[6]]]

\* Header::len: msg_length as a usize
Header_len(header) == header.msg_length

\* Header::from_len: None when len does not fit the u24 msg_length
Header_from_len(len, message_type, extension_type) ==
    IF len.hi # 0 THEN None
    ELSE Some([extension_type |-> extension_type,
               msg_type |-> message_type,
               msg_length |-> len.lo])

(***************************************************************************)
(* Sv2Frame                                                                *)
(***************************************************************************)

\* size_hint with the completeness test loosened to "at least msg_length"
size_hint_at_least(b) ==
    LET h == Header_from_bytes(b)
    IN  IF h.tag = "Err" THEN Header_SIZE - Len(b)
        ELSE IF Len(b) - Header_SIZE >= Header_len(h.val) THEN 0
        ELSE (Len(b) - Header_SIZE) + Header_len(h.val)

\* size_hint with the operands of the short-header subtraction swapped
size_hint_header_swapped(b) ==
    LET h == Header_from_bytes(b)
    IN  IF h.tag = "Err" THEN Len(b) - Header_SIZE
        ELSE IF Len(b) - Header_SIZE = Header_len(h.val) THEN 0
        ELSE (Len(b) - Header_SIZE) + Header_len(h.val)

\* size_hint with the difference instead of the sum in its last branch
size_hint_difference(b) ==
    LET h == Header_from_bytes(b)
    IN  IF h.tag = "Err" THEN Header_SIZE - Len(b)
        ELSE IF Len(b) - Header_SIZE = Header_len(h.val) THEN 0
        ELSE (Len(b) - Header_SIZE) - Header_len(h.val)

\* Sv2Frame::size_hint
size_hint(b) ==
    LET h == Header_from_bytes(b)
    IN  IF h.tag = "Err" THEN Header_SIZE - Len(b)
        ELSE IF Len(b) - Header_SIZE = Header_len(h.val) THEN 0
        ELSE (Len(b) - Header_SIZE) + Header_len(h.val)

\* Sv2Frame::from_bytes_unchecked
from_bytes_unchecked(b) ==
    LET h == Header_from_bytes(b)
    IN  IF h.tag = "Err" THEN Panic(115)
        ELSE [variant |-> "Raw", header |-> h.val, serialized |-> b]

\* Sv2Frame::from_bytes
from_bytes(b) ==
    LET h == size_hint(b)
    IN  IF h = 0 THEN [tag |-> "Ok", val |-> from_bytes_unchecked(b)]
        ELSE [tag |-> "Err", err |-> h]

\* update_extension_type that adds the mask without looking at bit 15
update_extension_type_adds_mask(extension_type, channel_msg) ==
    IF channel_msg THEN (extension_type + 32768) % 65536
    ELSE extension_type % 32768

\* update_extension_type: set or clear bit 15 of a u16
update_extension_type(extension_type, channel_msg) ==
    IF channel_msg
    THEN IF extension_type >= 32768 THEN extension_type ELSE extension_type + 32768
    ELSE extension_type % 32768

\* Sv2Frame::from_message; the message is known by its get_size()
from_message(message, message_type, extension_type, channel_msg) ==
    LET ext == update_extension_type(extension_type, channel_msg)
        len == as_u32(message.get_size)
        h == Header_from_len(len, message_type, ext)
    IN  IF h.tag = "None" THEN None
        ELSE Some([variant |-> "Payload", header |-> h.val, payload |-> message])

\* Sv2Frame::encoded_length
encoded_length(frame) ==
    IF frame.variant = "Raw" THEN USizeOf(Len(frame.serialized))
    ELSE USizeAdd(frame.payload.get_size, Header_SIZE)

\* the number of payload bytes a frame carries: the serialized bytes after
\* the header (Sv2Frame::payload) or the size of the message
payload_length(frame) ==
    IF frame.variant = "Raw" THEN USizeOf(Len(frame.serialized) - Header_SIZE)
    ELSE frame.payload.get_size

\* longest buffer fed to the decoder
MaxBuf == 8

\* the bytes that can arrive at each position of the buffer
ByteAt(pos) ==
    IF pos <= 2 THEN {0, 128}
    ELSE IF pos = 3 THEN {30}
    ELSE IF pos <= 6 THEN {0, 1, 46}
    ELSE {7}

\* get_size() of the messages framed by from_message
MessageSizes ==
    {[hi |-> h, lo |-> l] : h \in {0, 1, 256}, l \in {5, TwoPow24 - 1}}

Messages == [get_size : MessageSizes]

FrameStart ==
    /\ bytes = <<>>
    /\ hint = NotCalled
    /\ frame_res = NotCalled
    /\ msg_frame = NotCalled

\* one more byte arrives; what was computed for the shorter buffer is stale
Feed ==
    /\ Len(bytes) < MaxBuf
    /\ \E b \in ByteAt(Len(bytes) + 1) : bytes' = Append(bytes, b)
    /\ hint' = NotCalled
    /\ frame_res' = NotCalled
    /\ UNCHANGED msg_frame
    /\ UNCHANGED <<bridge_vars, codec_vars, noise_vars, binary_vars, proxy_vars, send_vars, handler_vars, sv1_vars, job_vars, lock_vars>>

\* the decoder drops the buffer and starts on the next frame
Clear ==
    /\ bytes # <<>>
    /\ bytes' = <<>>
    /\ hint' = NotCalled
    /\ frame_res' = NotCalled
    /\ UNCHANGED msg_frame
    /\ UNCHANGED <<bridge_vars, codec_vars, noise_vars, binary_vars, proxy_vars, send_vars, handler_vars, sv1_vars, job_vars, lock_vars>>

SizeHint ==
    /\ hint' = [tag |-> "Called", val |-> size_hint(bytes)]
    /\ UNCHANGED <<bytes, frame_res, msg_frame>>
    /\ UNCHANGED <<bridge_vars, codec_vars, noise_vars, binary_vars, proxy_vars, send_vars, handler_vars, sv1_vars, job_vars, lock_vars>>

FromBytes ==
    /\ frame_res' = from_bytes(bytes)
    /\ UNCHANGED <<bytes, hint, msg_frame>>
    /\ UNCHANGED <<bridge_vars, codec_vars, noise_vars, binary_vars, proxy_vars, send_vars, handler_vars, sv1_vars, job_vars, lock_vars>>

FromMessage ==
    /\ \E m \in Messages, e \in {0, 32769}, c \in BOOLEAN :
          msg_frame' = from_message(m, 30, e, c)
    /\ UNCHANGED <<bytes, hint, frame_res>>
    /\ UNCHANGED <<bridge_vars, codec_vars, noise_vars, binary_vars, proxy_vars, send_vars, handler_vars, sv1_vars, job_vars, lock_vars>>

FrameNext ==
    \/ Feed
    \/ Clear
    \/ SizeHint
    \/ FromBytes
    \/ FromMessage

(***************************************************************************)
(* codec-sv2 State: NotInitialized, HandShake(role), Transport(codec).     *)
(* The noise Initiator / Responder inside HandShake is known here by the   *)
(* steps it has completed; whether one of its steps succeeds is its own    *)
(* business (keys, certificate, clock), so each outcome is possible.       *)
(* step_3 and step_4 take the State by value: after an Err the caller      *)
(* holds no State any more ("Dropped") until it builds a new one.          *)
(***************************************************************************)

Ok(v) == [tag |-> "Ok", val |-> v]
Err(e) == [tag |-> "Err", err |-> e]

Roles == {"Initiator", "Responder"}

\* the ciphers a cipher list can name
Ciphers == {"ChaChaPoly", "AesGcm"}
CipherLists == {<<>>, <<"ChaChaPoly">>, <<"AesGcm">>, <<"AesGcm", "ChaChaPoly">>}

NotInitialized == [variant |-> "NotInitialized"]
HandShake(h) == [variant |-> "HandShake", role |-> h.role, done |-> h.done]
Transport(codec) == [variant |-> "Transport", codec |-> codec]
Dropped == [variant |-> "Dropped"]

\* From<noise_sv2::Error> for codec_sv2::Error
Error_from_noise(e) == Err("NoiseSv2Error")

\* the noise Initiator / Responder after it completed `step`
inner_done(h, step) == [role |-> h.role, done |-> h.done \cup {step}]

\* step_0 that gives the State up when it is called in the wrong state
step_0_resets_on_error(self, inner) ==
    IF self.variant = "HandShake" THEN
        IF self.role = "Initiator" THEN
            IF inner.tag = "Ok"
            THEN [res |-> Ok([payload_len |-> 32]),
                  state |-> HandShake(inner_done(self, "step_0"))]
            ELSE [res |-> Error_from_noise(inner), state |-> self]
        ELSE [res |-> Err("InvalidStepForResponder"), state |-> NotInitialized]
    ELSE [res |-> Err("NotInHandShakeState"), state |-> NotInitialized]

\* State::step_0(&mut self); inner: the result of Initiator::step_0
step_0(self, inner) ==
    IF self.variant = "HandShake" THEN
        IF self.role = "Initiator" THEN
            IF inner.tag = "Ok"
            THEN [res |-> Ok([payload_len |-> 32]),
                  state |-> HandShake(inner_done(self, "step_0"))]
            ELSE [res |-> Error_from_noise(inner), state |-> self]
        ELSE [res |-> Err("InvalidStepForResponder"), state |-> self]
    ELSE [res |-> Err("NotInHandShakeState"), state |-> self]

\* step_1 with the error of the other role in its Initiator arm
step_1_wrong_role_error(self, inner) ==
    IF self.variant = "HandShake" THEN
        IF self.role = "Responder" THEN
            IF inner.tag = "Ok"
            THEN [res |-> Ok([payload_len |-> 170]),
                  state |-> HandShake(inner_done(self, "step_1"))]
            ELSE [res |-> Error_from_noise(inner), state |-> self]
        ELSE [res |-> Err("InvalidStepForResponder"), state |-> self]
    ELSE [res |-> Err("NotInHandShakeState"), state |-> self]

\* State::step_1(&mut self, re_pub); inner: the result of Responder::step_1
step_1(self, inner) ==
    IF self.variant = "HandShake" THEN
        IF self.role = "Responder" THEN
            IF inner.tag = "Ok"
            THEN [res |-> Ok([payload_len |-> 170]),
                  state |-> HandShake(inner_done(self, "step_1"))]
            ELSE [res |-> Error_from_noise(inner), state |-> self]
        ELSE [res |-> Err("InvalidStepForInitiator"), state |-> self]
    ELSE [res |-> Err("NotInHandShakeState"), state |-> self]

\* step_2 with the errors of its Responder arm and its fallback arm exchanged
step_2_arms_exchanged(self, inner) ==
    IF self.variant = "HandShake" THEN
        IF self.role = "Initiator" THEN
            IF inner.tag = "Ok"
            THEN [res |-> Ok([payload_len |-> Len(inner.val)]),
                  state |-> HandShake(inner_done(self, "step_2"))]
            ELSE [res |-> Error_from_noise(inner), state |-> self]
        ELSE [res |-> Err("NotInHandShakeState"), state |-> self]
    ELSE [res |-> Err("InvalidStepForResponder"), state |-> self]

\* State::step_2(&mut self, message); inner: the result of Initiator::step_2,
\* on success the cipher list the initiator proposes
step_2(self, inner) ==
    IF self.variant = "HandShake" THEN
        IF self.role = "Initiator" THEN
            IF inner.tag = "Ok"
            THEN [res |-> Ok([payload_len |-> Len(inner.val)]),
                  state |-> HandShake(inner_done(self, "step_2"))]
            ELSE [res |-> Error_from_noise(inner), state |-> self]
        ELSE [res |-> Err("InvalidStepForResponder"), state |-> self]
    ELSE [res |-> Err("NotInHandShakeState"), state |-> self]

\* State::step_3(self, cipher_list); inner: the result of Responder::step_3,
\* on success the cipher it chose
step_3(self, inner) ==
    IF self.variant = "HandShake" THEN
        IF self.role = "Responder" THEN
            IF inner.tag = "Ok"
            THEN [res |-> Ok([payload_len |-> 1]),
                  state |-> Transport([role |-> "Responder", cipher |-> inner.val])]
            ELSE [res |-> Error_from_noise(inner), state |-> Dropped]
        ELSE [res |-> Err("InvalidStepForInitiator"), state |-> Dropped]
    ELSE [res |-> Err("NotInHandShakeState"), state |-> Dropped]

\* step_4 without the match on the role
step_4_any_role(self, inner) ==
    IF self.variant = "HandShake" THEN
        IF inner.tag = "Ok"
        THEN [res |-> Ok("State"),
              state |-> Transport([role |-> self.role, cipher |-> inner.val])]
        ELSE [res |-> Error_from_noise(inner), state |-> Dropped]
    ELSE [res |-> Err("NotInHandShakeState"), state |-> Dropped]

\* State::step_4(self, cipher_chosed); inner: the result of Initiator::step_4,
\* on success the cipher of the codec
step_4(self, inner) ==
    IF self.variant = "HandShake" THEN
        IF self.role = "Initiator" THEN
            IF inner.tag = "Ok"
            THEN [res |-> Ok("State"),
                  state |-> Transport([role |-> "Initiator", cipher |-> inner.val])]
            ELSE [res |-> Error_from_noise(inner), state |-> Dropped]
        ELSE [res |-> Err("InvalidStepForResponder"), state |-> Dropped]
    ELSE [res |-> Err("NotInHandShakeState"), state |-> Dropped]

\* what a step of the noise Initiator / Responder can return
InnerUnit == {Ok("frame"), Err("noise")}
InnerCipherList == {Ok(l) : l \in CipherLists \ {<<>>}} \cup {Err("noise")}
\* Responder::step_3 picks a cipher of the list it was sent
InnerChoice(cipher_list) == {Ok(cipher_list[i]) : i \in 1..Len(cipher_list)} \cup {Err("noise")}
\* Initiator::step_4 accepts the cipher it was sent or fails
InnerAccept(cipher) == {Ok(cipher), Err("noise")}

\* the two ends of a connection, each with its own State
Peers == {"client", "server"}

CodecStart ==
    /\ state = [p \in Peers |-> NotInitialized]
    /\ step_res = [peer |-> "client", op |-> "new", res |-> Ok("State")]

\* the call `op` by peer p returned `res` and left p with the State `st`
Call(p, op, res, st) ==
    /\ state' = [state EXCEPT ![p] = st]
    /\ step_res' = [peer |-> p, op |-> op, res |-> res]
    /\ UNCHANGED <<bridge_vars, frame_vars, noise_vars, binary_vars, proxy_vars, send_vars, handler_vars, sv1_vars, job_vars, lock_vars>>

\* State::new, State::default
New ==
    \E p \in Peers : Call(p, "new", Ok("State"), NotInitialized)

\* State::initialize
Initialize ==
    \E p \in Peers, r \in Roles :
        Call(p, "initialize", Ok("State"), HandShake([role |-> r, done |-> {}]))

\* State::with_transport_mode
WithTransportMode ==
    \E p \in Peers, r \in Roles, c \in Ciphers :
        Call(p, "with_transport_mode", Ok("State"), Transport([role |-> r, cipher |-> c]))

\* State::take: the State is replaced by NotInitialized and handed out
Take ==
    \E p \in Peers :
        /\ state[p].variant # "Dropped"
        /\ Call(p, "take", Ok(state[p]), NotInitialized)

Step0 ==
    \E p \in Peers, inner \in InnerUnit :
        /\ state[p].variant # "Dropped"
        /\ LET r == step_0(state[p], inner) IN Call(p, "step_0", r.res, r.state)

Step1 ==
    \E p \in Peers, inner \in InnerUnit :
        /\ state[p].variant # "Dropped"
        /\ LET r == step_1(state[p], inner) IN Call(p, "step_1", r.res, r.state)

Step2 ==
    \E p \in Peers, inner \in InnerCipherList :
        /\ state[p].variant # "Dropped"
        /\ LET r == step_2(state[p], inner) IN Call(p, "step_2", r.res, r.state)

Step3 ==
    \E p \in Peers, cipher_list \in CipherLists :
        /\ state[p].variant # "Dropped"
        /\ \E inner \in InnerChoice(cipher_list) :
              LET r == step_3(state[p], inner) IN Call(p, "step_3", r.res, r.state)

Step4 ==
    \E p \in Peers, cipher_chosed \in Ciphers :
        /\ state[p].variant # "Dropped"
        /\ \E inner \in InnerAccept(cipher_chosed) :
              LET r == step_4(state[p], inner) IN Call(p, "step_4", r.res, r.state)

CodecNext ==
    \/ New
    \/ Initialize
    \/ WithTransportMode
    \/ Take
    \/ Step0
    \/ Step1
    \/ Step2
    \/ Step3
    \/ Step4

(***************************************************************************)
(* noise-sv2: the handshake and the transport of test_1.  The test drives  *)
(* Initiator, Responder and NoiseCodec; the group, the key schedule and    *)
(* the cipher are small stand-ins with the shape of Noise_NX: an ephemeral *)
(* and a static Diffie-Hellman, one key per direction, a nonce counted per *)
(* message, an authentication tag appended to the ciphertext.              *)
(***************************************************************************)
DhPrime == 23
DhGenerator == 5
TagLen == 16
CertValidity == 31449600
MaxNonce == 2
SecretKeys == 1 .. 3
Nows == {1730000000, 1730000001}
Plaintexts == {<<>>, <<0>>, <<99, 105, 97, 111>>, <<255, 1>>}

RECURSIVE PowMod(_, _)
PowMod(b, e) == IF e = 0 THEN 1 ELSE (b * PowMod(b, e - 1)) % DhPrime

public_key(secret) == PowMod(DhGenerator, secret)
ecdh(secret, public) == PowMod(public, secret)

\* the handshake hash both sides authenticate
HandshakeMac(ck, rs) == (ck + rs) % DhPrime

\* one CipherState per direction, split from the chaining key
NoiseCodec_from(ck, is_initiator) ==
    LET c1 == [k |-> ck, n |-> 0]
        c2 == [k |-> (ck + 1) % DhPrime, n |-> 0]
    IN  IF is_initiator THEN [encryptor |-> c1, decryptor |-> c2]
        ELSE [encryptor |-> c2, decryptor |-> c1]

Initiator_new(pk, e) == [responder_authority_pk |-> pk, e |-> e]
Responder_new(key_pair, cert_validity, e) ==
    [s |-> key_pair, e |-> e, cert_validity |-> cert_validity]

Initiator_step_0(self) == Ok(public_key(self.e))

Responder_step_1(self, re_pub, now) ==
    LET ck == (ecdh(self.e, re_pub) + ecdh(self.s, re_pub)) % DhPrime
    IN  Ok([msg |-> [e |-> public_key(self.e), s |-> public_key(self.s),
                     valid_from |-> now,
                     not_valid_after |-> now + self.cert_validity,
                     mac |-> HandshakeMac(ck, public_key(self.s))],
            codec |-> NoiseCodec_from(ck, FALSE)])

Initiator_step_2(self, msg, now) ==
    LET ck == (ecdh(self.e, msg.e) + ecdh(self.e, msg.s)) % DhPrime
    IN  IF msg.mac # HandshakeMac(ck, msg.s) THEN Err("AeadError")
        ELSE IF self.responder_authority_pk # None
                /\ self.responder_authority_pk # Some(msg.s)
             THEN Err("InvalidCertificate")
        ELSE IF now < msg.valid_from \/ now > msg.not_valid_after
             THEN Err("InvalidCertificate")
        ELSE Ok(NoiseCodec_from(ck, TRUE))

RECURSIVE SumBytes(_, _)
SumBytes(b, i) == IF i > Len(b) THEN 0 ELSE (b[i] + SumBytes(b, i + 1)) % 256

KeyStream(c, i) == (11 * c.k + 7 * c.n + i) % 256
Tag(c, ct) == [j \in 1 .. TagLen |-> (c.k + c.n + SumBytes(ct, 1) + j) % 256]

\* NoiseCodec::encrypt(&mut buf): the buffer becomes ciphertext ++ tag
encrypt(codec, buf) ==
    LET c == codec.encryptor
        ct == [i \in 1 .. Len(buf) |-> (buf[i] + KeyStream(c, i)) % 256]
    IN  [res |-> Ok(<<>>), buf |-> ct \o Tag(c, ct),
         codec |-> [codec EXCEPT !.encryptor.n = @ + 1]]

\* NoiseCodec::decrypt(&mut buf): checks the tag, the buffer becomes plaintext
decrypt(codec, buf) ==
    LET c == codec.decryptor
        n == Len(buf) - TagLen
        ct == SubSeq(buf, 1, n)
    IN  IF n < 0 \/ SubSeq(buf, n + 1, Len(buf)) # Tag(c, ct)
        THEN [res |-> Err("AeadError"), buf |-> buf, codec |-> codec]
        ELSE [res |-> Ok(<<>>),
              buf |-> [i \in 1 .. n |-> (ct[i] - KeyStream(c, i)) % 256],
              codec |-> [codec EXCEPT !.decryptor.n = @ + 1]]

NoiseStart ==
    /\ initiator = None
    /\ responder = None
    /\ first_message = None
    /\ second_message = None
    /\ codec_initiator = None
    /\ codec_responder = None
    /\ buffer = <<>>
    /\ plain = <<>>
    /\ noise_res = [op |-> "none", res |-> NotCalled]

\* test_1: generate_key, Initiator::new, Responder::new
NoiseNew ==
    /\ noise_res.op = "none"
    /\ \E s \in SecretKeys, ei \in SecretKeys, er \in SecretKeys :
        /\ initiator' = Some(Initiator_new(Some(public_key(s)), ei))
        /\ responder' = Some(Responder_new(s, CertValidity, er))
    /\ noise_res' = [op |-> "new", res |-> Ok(<<>>)]
    /\ UNCHANGED <<first_message, second_message, codec_initiator,
                   codec_responder, buffer, plain>>
    /\ UNCHANGED <<bridge_vars, frame_vars, codec_vars, binary_vars, proxy_vars, send_vars, handler_vars, sv1_vars, job_vars, lock_vars>>

\* test_1: initiator.step_0().unwrap()
NoiseStep0 ==
    /\ noise_res.op = "new"
    /\ first_message' = Some(Initiator_step_0(initiator.val).val)
    /\ noise_res' = [op |-> "step_0", res |-> Initiator_step_0(initiator.val)]
    /\ UNCHANGED <<initiator, responder, second_message, codec_initiator,
                   codec_responder, buffer, plain>>
    /\ UNCHANGED <<bridge_vars, frame_vars, codec_vars, binary_vars, proxy_vars, send_vars, handler_vars, sv1_vars, job_vars, lock_vars>>

\* test_1: responder.step_1(first_message, now, rng).unwrap()
NoiseStep1 ==
    /\ noise_res.op = "step_0"
    /\ \E now \in Nows :
        LET r == Responder_step_1(responder.val, first_message.val, now)
        IN  /\ second_message' = Some(r.val.msg)
            /\ codec_responder' = Some(r.val.codec)
            /\ noise_res' = [op |-> "step_1", res |-> r]
    /\ UNCHANGED <<initiator, responder, first_message, codec_initiator,
                   buffer, plain>>
    /\ UNCHANGED <<bridge_vars, frame_vars, codec_vars, binary_vars, proxy_vars, send_vars, handler_vars, sv1_vars, job_vars, lock_vars>>

\* test_1: initiator.step_2(second_message, now).unwrap()
NoiseStep2 ==
    /\ noise_res.op = "step_1"
    /\ \E now \in Nows :
        LET r == Initiator_step_2(initiator.val, second_message.val, now)
        IN  /\ now >= second_message.val.valid_from
            /\ codec_initiator' = IF r.tag = "Ok" THEN Some(r.val) ELSE None
            /\ noise_res' = [op |-> "step_2", res |-> r]
    /\ UNCHANGED <<initiator, responder, first_message, second_message,
                   codec_responder, buffer, plain>>
    /\ UNCHANGED <<bridge_vars, frame_vars, codec_vars, binary_vars, proxy_vars, send_vars, handler_vars, sv1_vars, job_vars, lock_vars>>

\* test_1: let mut message = "ciao".as_bytes().to_vec()
NoiseSetMessage ==
    /\ \/ noise_res.op = "step_2" /\ noise_res.res.tag = "Ok"
       \/ noise_res.op = "decrypt" /\ noise_res.res.tag = "Ok"
    /\ codec_initiator.val.encryptor.n < MaxNonce
    /\ \E m \in Plaintexts :
        /\ buffer' = m
        /\ plain' = m
    /\ noise_res' = [op |-> "set", res |-> Ok(<<>>)]
    /\ UNCHANGED <<initiator, responder, first_message, second_message,
                   codec_initiator, codec_responder>>
    /\ UNCHANGED <<bridge_vars, frame_vars, codec_vars, binary_vars, proxy_vars, send_vars, handler_vars, sv1_vars, job_vars, lock_vars>>

\* test_1: codec_initiator.encrypt(&mut message)
NoiseEncrypt ==
    /\ noise_res.op = "set"
    /\ LET r == encrypt(codec_initiator.val, buffer)
       IN  /\ buffer' = r.buf
           /\ codec_initiator' = Some(r.codec)
           /\ noise_res' = [op |-> "encrypt", res |-> r.res]
    /\ UNCHANGED <<initiator, responder, first_message, second_message,
                   codec_responder, plain>>
    /\ UNCHANGED <<bridge_vars, frame_vars, codec_vars, binary_vars, proxy_vars, send_vars, handler_vars, sv1_vars, job_vars, lock_vars>>

\* the same call made on the wrong side's codec
NoiseDecrypt_at_initiator ==
    /\ noise_res.op = "encrypt"
    /\ LET r == decrypt(codec_initiator.val, buffer)
       IN  /\ buffer' = r.buf
           /\ codec_initiator' = Some(r.codec)
           /\ noise_res' = [op |-> "decrypt", res |-> r.res]
    /\ UNCHANGED <<initiator, responder, first_message, second_message,
                   codec_responder, plain>>
    /\ UNCHANGED <<bridge_vars, frame_vars, codec_vars, binary_vars, proxy_vars, send_vars, handler_vars, sv1_vars, job_vars, lock_vars>>

\* test_1: codec_responder.decrypt(&mut message)
NoiseDecrypt ==
    /\ noise_res.op = "encrypt"
    /\ LET r == decrypt(codec_responder.val, buffer)
       IN  /\ buffer' = r.buf
           /\ codec_responder' = Some(r.codec)
           /\ noise_res' = [op |-> "decrypt", res |-> r.res]
    /\ UNCHANGED <<initiator, responder, first_message, second_message,
                   codec_initiator, plain>>
    /\ UNCHANGED <<bridge_vars, frame_vars, codec_vars, binary_vars, proxy_vars, send_vars, handler_vars, sv1_vars, job_vars, lock_vars>>

NoiseNext ==
    \/ NoiseNew
    \/ NoiseStep0
    \/ NoiseStep1
    \/ NoiseStep2
    \/ NoiseSetMessage
    \/ NoiseEncrypt
    \/ NoiseDecrypt

(***************************************************************************)
(* translator main.rs: the global JOB_ID_TO_UPSTREAM_ID map, add_job_id    *)
(* and upstream_from_job_id.  The mutex is the map plus its poison flag:   *)
(* a panic inside the closure handed to safe_lock poisons it, and the      *)
(* `.unwrap()` of a later safe_lock on a poisoned mutex panics before the  *)
(* closure runs.                                                           *)
(***************************************************************************)
ProxyJobIds == 0 .. 2
UpstreamIds == 0 .. 2
\* ids of the upstreams ROUTING_LOGIC was initialised with (index as u32)
Upstreams == {0, 1}

HashMap_new == [map |-> <<>>, poisoned |-> FALSE]
HashMap_remove(m, k) == [j \in (DOMAIN m) \ {k} |-> m[j]]
HashMap_insert(m, k, v) == [j \in (DOMAIN m) \cup {k} |-> IF j = k THEN v ELSE m[j]]

\* GeneralMiningSelector::get_upstream under the ROUTING_LOGIC lock
get_upstream(upstream_id) ==
    IF upstream_id \in Upstreams THEN Some(upstream_id) ELSE None

\* upstream_from_job_id: [res, in_lock, mutex]; in_lock says whether a panic
\* happened inside the closure, that is while the lock was held
upstream_from_job_id(mutex, job_id) ==
    IF mutex.poisoned
    THEN [res |-> Panic(183), in_lock |-> FALSE, mutex |-> mutex]
    ELSE IF job_id \notin DOMAIN mutex.map
    THEN [res |-> Panic(182), in_lock |-> TRUE,
          mutex |-> [mutex EXCEPT !.poisoned = TRUE]]
    ELSE [res |-> get_upstream(mutex.map[job_id]), in_lock |-> FALSE,
          mutex |-> mutex]

\* add_job_id with the removal moved after the insertion
add_job_id_insert_then_remove(mutex, job_id, up_id, prev_job_id) ==
    IF mutex.poisoned
    THEN [res |-> Panic(IF prev_job_id # None THEN 194 ELSE 198),
          in_lock |-> FALSE, mutex |-> mutex]
    ELSE LET inserted == HashMap_insert(mutex.map, job_id, up_id)
             removed == IF prev_job_id # None
                        THEN HashMap_remove(inserted, prev_job_id.val)
                        ELSE inserted
         IN  [res |-> Ok(<<>>), in_lock |-> FALSE,
              mutex |-> [mutex EXCEPT !.map = removed]]

\* add_job_id
add_job_id(mutex, job_id, up_id, prev_job_id) ==
    IF mutex.poisoned
    THEN [res |-> Panic(IF prev_job_id # None THEN 194 ELSE 198),
          in_lock |-> FALSE, mutex |-> mutex]
    ELSE LET removed == IF prev_job_id # None
                        THEN HashMap_remove(mutex.map, prev_job_id.val)
                        ELSE mutex.map
         IN  [res |-> Ok(<<>>), in_lock |-> FALSE,
              mutex |-> [mutex EXCEPT !.map = HashMap_insert(removed, job_id, up_id)]]

ProxyStart ==
    /\ JOB_ID_TO_UPSTREAM_ID = HashMap_new
    /\ proxy_res = [op |-> "none", job_id |-> 0, up_id |-> 0,
                    prev_job_id |-> None, res |-> NotCalled, in_lock |-> FALSE]

AddJobId ==
    /\ \E job_id \in ProxyJobIds, up_id \in UpstreamIds,
          prev_job_id \in {None} \cup {Some(j) : j \in ProxyJobIds} :
        LET r == add_job_id(JOB_ID_TO_UPSTREAM_ID, job_id, up_id, prev_job_id)
        IN  /\ JOB_ID_TO_UPSTREAM_ID' = r.mutex
            /\ proxy_res' = [op |-> "add_job_id", job_id |-> job_id,
                             up_id |-> up_id, prev_job_id |-> prev_job_id,
                             res |-> r.res, in_lock |-> r.in_lock]
    /\ UNCHANGED <<bridge_vars, frame_vars, codec_vars, noise_vars, binary_vars, send_vars, handler_vars, sv1_vars, job_vars, lock_vars>>

UpstreamFromJobId ==
    /\ \E job_id \in ProxyJobIds :
        LET r == upstream_from_job_id(JOB_ID_TO_UPSTREAM_ID, job_id)
        IN  /\ JOB_ID_TO_UPSTREAM_ID' = r.mutex
            /\ proxy_res' = [op |-> "upstream_from_job_id", job_id |-> job_id,
                             up_id |-> 0, prev_job_id |-> None,
                             res |-> r.res, in_lock |-> r.in_lock]
    /\ UNCHANGED <<bridge_vars, frame_vars, codec_vars, noise_vars, binary_vars, send_vars, handler_vars, sv1_vars, job_vars, lock_vars>>

ProxyNext ==
    \/ AddJobId
    \/ UpstreamFromJobId

(***************************************************************************)
(* binary-sv2 (no-serde): to_bytes / from_bytes over field markers.        *)
(* A primitive value is [ty, n], [ty, b] or [ty, inner] (an integer, a     *)
(* bool, the bytes of an Inner); a message is the sequence of its fields.  *)
(* u32 values are kept below 2^31.  Errors are tuples <<kind, ...>>.       *)
(***************************************************************************)
FixedTypes == {"U8", "U16", "Bool", "U24", "U32"}
VariableTypes == {"B032", "B0255", "B064K", "B016M"}

\* impl Fixed for u8 / bool / U24 / u32
Fixed_SIZE(ty) ==
    CASE ty = "U8" -> 1 [] ty = "U16" -> 2 [] ty = "Bool" -> 1
      [] ty = "U24" -> 3 [] ty = "U32" -> 4

\* Inner<'a, ISFIXED, SIZE, HEADERSIZE, MAXSIZE>: the HEADERSIZE of each alias
Variable_HEADER_SIZE(ty) ==
    CASE ty = "B032" -> 1 [] ty = "B0255" -> 1 [] ty = "B064K" -> 2 [] ty = "B016M" -> 3

\* every bound taken to be that of B0255
Variable_MAX_SIZE_all_255(ty) == 255

\* the MAXSIZE of each alias
Variable_MAX_SIZE(ty) ==
    CASE ty = "B032" -> 32 [] ty = "B0255" -> 255
      [] ty = "B064K" -> 65535 [] ty = "B016M" -> TwoPow24 - 1

RECURSIVE to_le_bytes(_, _)
to_le_bytes(n, size) ==
    IF size = 0 THEN <<>> ELSE <<n % 256>> \o to_le_bytes(n \div 256, size - 1)

RECURSIVE from_le_bytes(_)
from_le_bytes(b) ==
    IF Len(b) = 0 THEN 0 ELSE b[1] + 256 * from_le_bytes(Tail(b))

\* impl TryFrom<u32> for U24
U24_try_from(x) ==
    IF x < TwoPow24 THEN Ok([ty |-> "U24", n |-> x]) ELSE Err(<<"U24TooBig", x>>)

\* impl TryFrom<Vec<u8>> for Inner; the vector is known by its len(), the
\* only thing the comparison reads
Inner_try_from(ty, len) ==
    IF len <= Variable_MAX_SIZE(ty) THEN Ok(len)
    ELSE Err(<<"ValueExceedsMaxSize", Variable_HEADER_SIZE(ty),
               Variable_MAX_SIZE(ty), len>>)

\* GetSize of a primitive: Fixed::SIZE, or header plus payload for an Inner
Primitive_get_size(p) ==
    IF p.ty \in FixedTypes THEN Fixed_SIZE(p.ty)
    ELSE Variable_HEADER_SIZE(p.ty) + Len(p.inner)

\* Sv2DataType::to_slice_unchecked: the wire bytes of a primitive
to_slice_unchecked(p) ==
    CASE p.ty = "U8" -> <<p.n>>
      [] p.ty = "U16" -> to_le_bytes(p.n, 2)
      [] p.ty = "Bool" -> <<IF p.b THEN 1 ELSE 0>>
      [] p.ty = "U24" -> to_le_bytes(p.n, 3)
      [] p.ty = "U32" -> to_le_bytes(p.n, 4)
      [] OTHER -> to_le_bytes(Len(p.inner), Variable_HEADER_SIZE(p.ty)) \o p.inner

\* to_slice that reports the room it was given instead of what it wrote
to_slice_reports_room(p, dst) ==
    IF Len(dst) >= Primitive_get_size(p)
    THEN [res |-> Ok(Len(dst)),
          dst |-> to_slice_unchecked(p)
                    \o SubSeq(dst, Primitive_get_size(p) + 1, Len(dst))]
    ELSE [res |-> Err(<<"WriteError", Primitive_get_size(p), Len(dst)>>),
          dst |-> dst]

\* Sv2DataType::to_slice: [res, dst]
to_slice(p, dst) ==
    IF Len(dst) >= Primitive_get_size(p)
    THEN [res |-> Ok(Primitive_get_size(p)),
          dst |-> to_slice_unchecked(p)
                    \o SubSeq(dst, Primitive_get_size(p) + 1, Len(dst))]
    ELSE [res |-> Err(<<"WriteError", Primitive_get_size(p), Len(dst)>>),
          dst |-> dst]

Primitive(p) == [variant |-> "Primitive", p |-> p]
Struct(ps) == [variant |-> "Struct", ps |-> ps]

\* the derived From<T> for EncodableField: one Primitive per field, in order
EncodableField_from(m) == Struct([i \in DOMAIN m |-> Primitive(m[i])])

RECURSIVE EncodableField_encode(_, _, _)
RECURSIVE encode_struct(_, _, _, _, _)

\* the `for p in ps` loop of the Struct arm
encode_struct(ps, i, dst, offset, result) ==
    IF i > Len(ps) THEN [res |-> Ok(result), dst |-> dst]
    ELSE LET r == EncodableField_encode(ps[i], dst, offset)
         IN  IF r.res.tag = "Err" THEN r
             ELSE encode_struct(ps, i + 1, r.dst, offset + r.res.val,
                                result + r.res.val)

\* EncodableField::encode(&self, dst, offset): [res, dst]
EncodableField_encode(self, dst, offset) ==
    IF Len(dst) < offset
    THEN [res |-> Err(<<"WriteError", offset, Len(dst)>>), dst |-> dst]
    ELSE IF self.variant = "Primitive"
    THEN LET r == to_slice(self.p, SubSeq(dst, offset + 1, Len(dst)))
         IN  [res |-> r.res, dst |-> SubSeq(dst, 1, offset) \o r.dst]
    ELSE encode_struct(self.ps, 1, dst, offset, 0)

RECURSIVE EncodableField_get_size(_)
RECURSIVE get_size_struct(_, _)

get_size_struct(ps, i) ==
    IF i > Len(ps) THEN 0
    ELSE EncodableField_get_size(ps[i]) + get_size_struct(ps, i + 1)

\* GetSize for EncodableField
EncodableField_get_size(self) ==
    IF self.variant = "Primitive" THEN Primitive_get_size(self.p)
    ELSE get_size_struct(self.ps, 1)

\* binary_sv2::to_bytes(src): a zeroed vector of src.get_size() bytes, filled
\* by Encodable::to_bytes
to_bytes(src) ==
    LET result == [i \in 1 .. EncodableField_get_size(EncodableField_from(src)) |-> 0]
        r == EncodableField_encode(EncodableField_from(src), result, 0)
    IN  IF r.res.tag = "Err" THEN r.res ELSE Ok(r.dst)

\* Inner::size_hint: header plus the length the header declares, refused
\* when the header cannot be read or declares more than MAXSIZE
Inner_size_hint(ty, data, offset) ==
    LET d == SubSeq(data, offset + 1, Len(data))
        h == Variable_HEADER_SIZE(ty)
        expected_length == from_le_bytes(SubSeq(d, 1, h)) + h
    IN  IF Len(d) < h THEN Err(<<"ReadError", Len(d), h>>)
        ELSE IF expected_length <= Variable_MAX_SIZE(ty) + h
        THEN Ok(expected_length)
        ELSE Err(<<"ValueExceedsMaxSize", h, Variable_MAX_SIZE(ty),
                   expected_length>>)

\* SizeHint for PrimitiveMarker; a Fixed type answers its SIZE
PrimitiveMarker_size_hint(ty, data, offset) ==
    IF ty \in FixedTypes THEN Ok(Fixed_SIZE(ty))
    ELSE Inner_size_hint(ty, data, offset)

\* what bool::from_bytes_unchecked can do with a byte that is neither 0 nor
\* 1: it returns a bool and no Result, so it panics or answers a bool
UncheckedBool == {Panic(311), [ty |-> "Bool", b |-> FALSE], [ty |-> "Bool", b |-> TRUE]}

\* Sv2DataType::from_bytes_unchecked of each type; u: the outcome for a bool
\* byte other than 0 and 1
Sv2DataType_from_bytes_unchecked(ty, data, u) ==
    CASE ty = "U8" -> [ty |-> ty, n |-> data[1]]
      [] ty = "U16" -> [ty |-> ty, n |-> from_le_bytes(SubSeq(data, 1, 2))]
      [] ty = "Bool" -> IF data[1] = 0 THEN [ty |-> ty, b |-> FALSE]
                        ELSE IF data[1] = 1 THEN [ty |-> ty, b |-> TRUE]
                        ELSE u
      [] ty = "U24" -> [ty |-> ty, n |-> from_le_bytes(SubSeq(data, 1, 3))]
      [] ty = "U32" -> [ty |-> ty, n |-> from_le_bytes(SubSeq(data, 1, 4))]
      [] OTHER -> [ty |-> ty,
                   inner |-> SubSeq(data, Variable_HEADER_SIZE(ty) + 1, Len(data))]

\* decode that reads a U24 as two bytes
PrimitiveMarker_decode_u24_as_u16(ty, data, offset, u) ==
    IF ty = "U24"
    THEN [ty |-> ty, n |-> from_le_bytes(SubSeq(data, offset + 1, offset + 2))]
    ELSE Sv2DataType_from_bytes_unchecked(ty, SubSeq(data, offset + 1, Len(data)), u)

\* PrimitiveMarker::decode(&self, data, offset)
PrimitiveMarker_decode(ty, data, offset, u) ==
    Sv2DataType_from_bytes_unchecked(ty, SubSeq(data, offset + 1, Len(data)), u)

\* the derived Decodable::get_structure: the markers of the fields, in order
get_structure(m) == [i \in DOMAIN m |-> m[i].ty]

RECURSIVE decode_fields(_, _, _, _, _)
\* the loop of Decodable::from_bytes, then from_decoded_fields
decode_fields(structure, i, tail, fields, u) ==
    IF i > Len(structure) THEN Ok(fields)
    ELSE LET field_size == PrimitiveMarker_size_hint(structure[i], tail, 0)
         IN  IF field_size.tag = "Err" THEN field_size
             ELSE IF field_size.val > Len(tail)
             THEN Err(<<"DecodableConversionError">>)
             ELSE LET head == SubSeq(tail, 1, field_size.val)
                      t == SubSeq(tail, field_size.val + 1, Len(tail))
                      d == PrimitiveMarker_decode(structure[i], head, 0, u)
                  IN  IF "tag" \in DOMAIN d THEN d
                      ELSE decode_fields(structure, i + 1, t, Append(fields, d), u)

\* from_bytes that decodes every field from the start of the buffer
Decodable_from_bytes_no_split(structure, data, u) ==
    LET d == [i \in DOMAIN structure |->
                 PrimitiveMarker_decode(structure[i], data, 0, u)]
    IN  Ok(d)

\* from_bytes that takes bytes left over after the last field for an error
Decodable_from_bytes_exact_length(structure, data, u) ==
    LET r == decode_fields(structure, 1, data, <<>>, u)
    IN  IF r.tag = "Ok" /\ EncodableField_get_size(EncodableField_from(r.val)) # Len(data)
        THEN Err(<<"DecodableConversionError">>)
        ELSE r

\* Decodable::from_bytes for a type with the field markers `structure`
Decodable_from_bytes(structure, data, u) ==
    decode_fields(structure, 1, data, <<>>, u)

U32Values == {0, 456, 2147483647}
U8Values == {0, 9, 255}
U24Values == {0, 67, TwoPow24 - 1}
B032Values == {<<>>, <<1, 2>>, [i \in 1 .. 32 |-> 7]}
Str0255Values == {<<>>, <<104, 105>>}
B064KValues == {<<>>, [i \in 1 .. 300 |-> 1]}

\* the Test of the encode_decode example, single bool and U24 fields,
\* SetExtranoncePrefix, CloseChannel and a B064K
BinaryMessages ==
    {<<[ty |-> "U32", n |-> a], [ty |-> "U8", n |-> b], [ty |-> "U24", n |-> c]>> :
        a \in U32Values, b \in U8Values, c \in U24Values}
    \cup {<<[ty |-> "Bool", b |-> x]>> : x \in BOOLEAN}
    \cup {<<[ty |-> "U24", n |-> c]>> : c \in U24Values}
    \cup {<<[ty |-> "U32", n |-> a], [ty |-> "B032", inner |-> x]>> :
            a \in U32Values, x \in B032Values}
    \cup {<<[ty |-> "U32", n |-> a], [ty |-> "B0255", inner |-> x]>> :
            a \in U32Values, x \in Str0255Values}
    \cup {<<[ty |-> "B064K", inner |-> x]>> : x \in B064KValues}

\* the structures bytes from the peer are decoded against
Structures ==
    {<<"Bool">>, <<"U24">>, <<"B032">>, <<"U32", "B032">>, <<"U32", "U8", "U24">>}

\* bytes from the peer: bool bytes, a U24, B032s with prefix 32, 33 and 5
ReceivedBuffers ==
    {<<>>, <<0>>, <<1>>, <<2>>, <<255>>, <<33>>, <<5, 1>>,
     <<255, 255, 255>>, <<67, 0, 0>>, <<200, 1, 0, 0, 9, 67, 0>>,
     <<32>> \o [i \in 1 .. 32 |-> 0], <<33>> \o [i \in 1 .. 33 |-> 0],
     <<7, 0, 0, 0, 33>> \o [i \in 1 .. 33 |-> 0]}

U24Inputs == {0, 67, TwoPow24 - 1, TwoPow24, TwoPow24 + 1, 2147483647}

BinaryStart ==
    /\ expected = None
    /\ encoded = <<>>
    /\ binary_res = [op |-> "none", structure |-> <<>>, res |-> NotCalled]

\* binary_sv2::to_bytes(expected.clone())
ToBytes ==
    /\ \E m \in BinaryMessages :
        /\ expected' = Some(m)
        /\ encoded' = IF to_bytes(m).tag = "Ok" THEN to_bytes(m).val ELSE <<>>
        /\ binary_res' = [op |-> "to_bytes", structure |-> get_structure(m),
                          res |-> to_bytes(m)]
    /\ UNCHANGED <<bridge_vars, frame_vars, codec_vars, noise_vars, proxy_vars, send_vars, handler_vars, sv1_vars, job_vars, lock_vars>>

\* Encodable::to_bytes(self, dst) into a buffer of the caller, one byte
\* short, exact, or one byte long
Encode ==
    /\ \E m \in BinaryMessages, room \in {-1, 0, 1} :
        LET n == EncodableField_get_size(EncodableField_from(m)) + room
            r == EncodableField_encode(EncodableField_from(m),
                                       [i \in 1 .. n |-> 0], 0)
        IN  /\ n >= 0
            /\ expected' = Some(m)
            /\ encoded' = r.dst
            /\ binary_res' = [op |-> "encode", structure |-> get_structure(m),
                              res |-> r.res]
    /\ UNCHANGED <<bridge_vars, frame_vars, codec_vars, noise_vars, proxy_vars, send_vars, handler_vars, sv1_vars, job_vars, lock_vars>>

\* bytes arrive from the peer, to be decoded as one of the structures
Receive ==
    /\ \E structure \in Structures, b \in ReceivedBuffers :
        /\ expected' = None
        /\ encoded' = b
        /\ binary_res' = [op |-> "recv", structure |-> structure, res |-> NotCalled]
    /\ UNCHANGED <<bridge_vars, frame_vars, codec_vars, noise_vars, proxy_vars, send_vars, handler_vars, sv1_vars, job_vars, lock_vars>>

\* bytes that follow a message in the buffer it is decoded from
Suffixes == {<<0>>, <<255, 255>>, <<1, 2, 3>>}

\* the bytes of a message are followed by more bytes in the buffer
ReceiveMore ==
    /\ binary_res.op = "to_bytes" /\ binary_res.res.tag = "Ok"
    /\ encoded = binary_res.res.val
    /\ \E s \in Suffixes : encoded' = encoded \o s
    /\ UNCHANGED <<expected, binary_res>>
    /\ UNCHANGED <<bridge_vars, frame_vars, codec_vars, noise_vars, proxy_vars, send_vars, handler_vars, sv1_vars, job_vars, lock_vars>>

\* binary_sv2::from_bytes(&mut bytes[..])
DecodeBytes ==
    /\ \/ binary_res.op = "to_bytes" /\ binary_res.res.tag = "Ok"
       \/ binary_res.op = "recv"
    /\ \E u \in UncheckedBool :
        binary_res' = [op |-> "from_bytes", structure |-> binary_res.structure,
                       res |-> Decodable_from_bytes(binary_res.structure, encoded, u)]
    /\ UNCHANGED <<expected, encoded>>
    /\ UNCHANGED <<bridge_vars, frame_vars, codec_vars, noise_vars, proxy_vars, send_vars, handler_vars, sv1_vars, job_vars, lock_vars>>

\* x.try_into() for a U24
U24TryFrom ==
    /\ \E x \in U24Inputs :
        /\ expected' = Some(x)
        /\ binary_res' = [op |-> "U24::try_from", structure |-> <<"U24">>,
                          res |-> U24_try_from(x)]
    /\ encoded' = <<>>
    /\ UNCHANGED <<bridge_vars, frame_vars, codec_vars, noise_vars, proxy_vars, send_vars, handler_vars, sv1_vars, job_vars, lock_vars>>

\* vec.try_into() for a bounded byte string, at and around its bound
InnerTryFrom ==
    /\ \E ty \in VariableTypes, over \in {-1, 0, 1} :
        LET len == Variable_MAX_SIZE(ty) + over
        IN  /\ expected' = Some(len)
            /\ binary_res' = [op |-> "Inner::try_from", structure |-> <<ty>>,
                              res |-> Inner_try_from(ty, len)]
    /\ encoded' = <<>>
    /\ UNCHANGED <<bridge_vars, frame_vars, codec_vars, noise_vars, proxy_vars, send_vars, handler_vars, sv1_vars, job_vars, lock_vars>>

BinaryNext ==
    \/ ToBytes
    \/ Encode
    \/ Receive
    \/ ReceiveMore
    \/ DecodeBytes
    \/ U24TryFrom
    \/ InnerTryFrom

(***************************************************************************)
(* The sending side of framing-sv2: a frame is built from a message        *)
(* (Payload) or from bytes already serialized (Raw, as a proxy relays      *)
(* them) and is then written into the buffer `dst`.                        *)
(***************************************************************************)

\* the header as the Encodable it derives: extension_type u16, msg_type u8,
\* msg_length U24
Header_fields(header) ==
    Struct(<<Primitive([ty |-> "U16", n |-> header.extension_type]),
             Primitive([ty |-> "U8", n |-> header.msg_type]),
             Primitive([ty |-> "U24", n |-> header.msg_length])>>)

\* binary_sv2::to_writer(src, dst): Encodable::to_bytes without the count
to_writer(src, dst) ==
    LET r == EncodableField_encode(src, dst, 0)
    IN  [res |-> IF r.res.tag = "Err" THEN r.res ELSE Ok(<<>>), dst |-> r.dst]

\* Sv2Frame::serialize(self, dst): [res, dst].  The Raw arm swaps dst with
\* the serialized bytes; swap_with_slice panics when the two lengths differ.
serialize(self, dst) ==
    IF self.variant = "Raw"
    THEN IF Len(dst) # Len(self.serialized)
         THEN [res |-> Panic(60), dst |-> dst]
         ELSE [res |-> Ok(<<>>), dst |-> self.serialized]
    ELSE LET h == to_writer(Header_fields(self.header), dst)
         IN  IF h.res.tag = "Err"
             THEN [res |-> Err(<<"BinarySv2Error", h.res.err>>), dst |-> h.dst]
             ELSE LET w == to_writer(self.payload.field,
                                     SubSeq(h.dst, Header_SIZE + 1, Len(h.dst)))
                      out == SubSeq(h.dst, 1, Header_SIZE) \o w.dst
                  IN  IF w.res.tag = "Err"
                      THEN [res |-> Err(<<"BinarySv2Error", w.res.err>>), dst |-> out]
                      ELSE [res |-> Ok(<<>>), dst |-> out]

\* the messages framed by the sender: the field list and its get_size()
SendMessages ==
    {[get_size |-> USizeOf(EncodableField_get_size(EncodableField_from(m))),
      field |-> EncodableField_from(m)] :
        m \in {<<[ty |-> "U32", n |-> 456], [ty |-> "U8", n |-> 9],
                 [ty |-> "U24", n |-> 67]>>,
               <<[ty |-> "U32", n |-> 1], [ty |-> "B032", inner |-> <<1, 2>>]>>,
               <<[ty |-> "Bool", b |-> TRUE]>>}}

ExtensionTypes == {0, 1, 32767, 32768, 32769, 65535}

\* serialized frames as they arrive for relaying: complete ones and one
\* that misses its last byte
SerializedFrames ==
    {<<0, 128, 30, 0, 0, 0>>, <<1, 0, 30, 1, 0, 0, 7>>,
     <<0, 0, 30, 2, 0, 0, 7, 7>>, <<0, 0, 30, 2, 0, 0, 7>>}

\* how much longer than encoded_length() the destination is
DstSlack == {-1, 0, 1}

NoArgs == [message_type |-> 0, extension_type |-> 0, channel_msg |-> FALSE,
           built |-> "none"]

NoOutput == [res |-> NotCalled, dst |-> <<>>, frame |-> None]

SendStart ==
    /\ snd_frame = None
    /\ snd_args = NoArgs
    /\ snd_out = NoOutput

\* Sv2Frame::from_message(message, message_type, extension_type, channel_msg)
SendFromMessage ==
    /\ \E m \in SendMessages, e \in ExtensionTypes, c \in BOOLEAN :
          /\ snd_frame' = from_message(m, 30, e, c)
          /\ snd_args' = [message_type |-> 30, extension_type |-> e,
                          channel_msg |-> c, built |-> "from_message"]
    /\ snd_out' = NoOutput
    /\ UNCHANGED <<bridge_vars, frame_vars, codec_vars, noise_vars, binary_vars, proxy_vars, handler_vars, sv1_vars, job_vars, lock_vars>>

\* Sv2Frame::from_bytes(bytes) on a buffer taken off the wire
SendFromBytes ==
    /\ \E b \in SerializedFrames :
          snd_frame' = IF from_bytes(b).tag = "Ok" THEN Some(from_bytes(b).val)
                       ELSE None
    /\ snd_args' = [NoArgs EXCEPT !.built = "from_bytes"]
    /\ snd_out' = NoOutput
    /\ UNCHANGED <<bridge_vars, frame_vars, codec_vars, noise_vars, binary_vars, proxy_vars, handler_vars, sv1_vars, job_vars, lock_vars>>

\* frame.serialize(&mut dst) with a zeroed dst; the frame is moved into it
Serialize ==
    /\ snd_frame # None
    /\ \E k \in DstSlack :
          LET len == encoded_length(snd_frame.val).lo + k
              r == serialize(snd_frame.val, [i \in 1 .. len |-> 0])
          IN  snd_out' = [res |-> r.res, dst |-> r.dst, frame |-> snd_frame]
    /\ snd_frame' = None
    /\ UNCHANGED snd_args
    /\ UNCHANGED <<bridge_vars, frame_vars, codec_vars, noise_vars, binary_vars, proxy_vars, handler_vars, sv1_vars, job_vars, lock_vars>>

SendNext ==
    \/ SendFromMessage
    \/ SendFromBytes
    \/ Serialize

(***************************************************************************)
(* Message handlers: the translator's answer to SetupConnection and the    *)
(* dispatch of job-declaration messages in roles-logic.                    *)
(***************************************************************************)

\* SetupConnection::requires_standard_job: bit 0 of flags
requires_standard_job(incoming) == incoming.flags % 2 = 1

\* SetupConnectionHandler::handle_setup_connection
handle_setup_connection(incoming) ==
    LET header_only == requires_standard_job(incoming)
    IN  Ok([send_to |-> "RelayNewMessage",
            message |-> "SetupConnectionSuccess",
            flags |-> 0,
            used_version |-> 2])

\* SetupConnection requests: the version range asked for, and the flags
SetupConnections == [min_version : 0 .. 3, max_version : 0 .. 3, flags : {0, 1}]

\* min_supported_version() / max_supported_version() of the configuration
SupportedVersions ==
    {[min_supported_version |-> 2, max_supported_version |-> 2],
     [min_supported_version |-> 1, max_supported_version |-> 2],
     [min_supported_version |-> 2, max_supported_version |-> 3]}

\* the variants of parsers::JobDeclaration
JobDeclarationVariants ==
    {"AllocateMiningJobToken", "AllocateMiningJobTokenSuccess",
     "CommitMiningJob", "CommitMiningJobSuccess"}

\* what a frame header can announce: a job-declaration message or another
MessageTypes == JobDeclarationVariants \cup {"Unknown"}

Payloads == {"well-formed", "malformed"}

\* what the role's own handle_* method returns
HandlerOutcomes == {Ok("SendTo"), Err("Handler")}

\* JobDeclaration::try_from((message_type, payload))
JobDeclaration_try_from(message_type, payload) ==
    IF message_type \notin JobDeclarationVariants THEN Err("UnexpectedMessage")
    ELSE IF payload = "malformed" THEN Err("BinarySv2Error")
    ELSE Ok(message_type)

\* ParseServerJobDeclarationMessages::handle_message_job_declaration; h is
\* what the handle_* method called inside safe_lock returns
ParseServer_handle_message_job_declaration(message_type, payload, h) ==
    LET m == JobDeclaration_try_from(message_type, payload)
    IN  IF m = Ok("AllocateMiningJobTokenSuccess") THEN h
        ELSE IF m = Ok("CommitMiningJobSuccess") THEN h
        ELSE IF m.tag = "Ok" THEN Panic(27)
        ELSE m

\* ParseClientJobDeclarationMessages::handle_message_job_declaration
ParseClient_handle_message_job_declaration(message_type, payload, h) ==
    LET m == JobDeclaration_try_from(message_type, payload)
    IN  IF m = Ok("AllocateMiningJobToken") THEN h
        ELSE IF m = Ok("CommitMiningJob") THEN h
        ELSE IF m.tag = "Ok" THEN Panic(63)
        ELSE m

NoCall == [message_type |-> "Unknown", payload |-> "well-formed", res |-> NotCalled]

HandlerStart ==
    /\ setup_res = [incoming |-> None, config |-> None, res |-> NotCalled]
    /\ jd_res = [server |-> NoCall, client |-> NoCall]

\* a SetupConnection arrives from a downstream
HandleSetupConnection ==
    /\ \E incoming \in SetupConnections, config \in SupportedVersions :
          setup_res' = [incoming |-> Some(incoming), config |-> Some(config),
                        res |-> handle_setup_connection(incoming)]
    /\ UNCHANGED jd_res
    /\ UNCHANGED <<bridge_vars, frame_vars, codec_vars, noise_vars, binary_vars, proxy_vars, send_vars, sv1_vars, job_vars, lock_vars>>

\* a frame arrives at the role that implements the server-side trait; once
\* the handler has panicked it handles no further frame
HandleServerJobDeclaration ==
    /\ jd_res.server.res.tag # "Panic"
    /\ \E t \in MessageTypes, p \in Payloads, h \in HandlerOutcomes :
          jd_res' = [jd_res EXCEPT !.server =
                       [message_type |-> t, payload |-> p,
                        res |-> ParseServer_handle_message_job_declaration(t, p, h)]]
    /\ UNCHANGED setup_res
    /\ UNCHANGED <<bridge_vars, frame_vars, codec_vars, noise_vars, binary_vars, proxy_vars, send_vars, sv1_vars, job_vars, lock_vars>>

\* a frame arrives at the role that implements the client-side trait
HandleClientJobDeclaration ==
    /\ jd_res.client.res.tag # "Panic"
    /\ \E t \in MessageTypes, p \in Payloads, h \in HandlerOutcomes :
          jd_res' = [jd_res EXCEPT !.client =
                       [message_type |-> t, payload |-> p,
                        res |-> ParseClient_handle_message_job_declaration(t, p, h)]]
    /\ UNCHANGED setup_res
    /\ UNCHANGED <<bridge_vars, frame_vars, codec_vars, noise_vars, binary_vars, proxy_vars, send_vars, sv1_vars, job_vars, lock_vars>>

HandlerNext ==
    \/ HandleSetupConnection
    \/ HandleServerJobDeclaration
    \/ HandleClientJobDeclaration

(***************************************************************************)
(* Stratum V1, server to client: serde_json values, json_rpc messages and  *)
(* the conversions of methods/server_to_client.rs.  A JSON string is the   *)
(* sequence of its bytes; method names and object keys are TLA+ strings.   *)
(***************************************************************************)

JString(x) == [j |-> "String", s |-> x]
JBool(x) == [j |-> "Bool", b |-> x]
JNumber(x) == [j |-> "Number", n |-> x]
JArrary(x) == [j |-> "Array", a |-> x]
JObject(x) == [j |-> "Object", o |-> x]

\* json_rpc::Message::Notification
Notification(method, params) ==
    [kind |-> "Notification", method |-> method, params |-> params]

\* json_rpc::Message::OkResponse
OkResponse(id, result) ==
    [kind |-> "OkResponse", id |-> id, error |-> None, result |-> result]

\* serde_json::Map::get
Map_get(o, key) == IF key \in DOMAIN o THEN Some(o[key]) ELSE None

\* format!("{:08x}", n): eight lower-case hex digits
format_08x(n) ==
    [i \in 1 .. 8 |-> DigitChar((n \div (16 ^ (8 - i))) % 16)]

\* hex::encode: two lower-case hex digits per byte
hex_encode(v) ==
    [i \in 1 .. 2 * Len(v) |->
        IF i % 2 = 1 THEN DigitChar(v[(i + 1) \div 2] \div 16)
        ELSE DigitChar(v[i \div 2] % 16)]

\* HexU32Be -> Value
HexU32Be_into_value(n) == JString(format_08x(n))

\* HexBytes -> Value
HexBytes_into_value(v) == JString(hex_encode(v))

\* PrevHash / MerkleNode -> Value: the hex of the 32 bytes
U256_into_value(v) == JString(hex_encode(v))

\* PrevHash / MerkleNode from &str: a hex string of exactly 32 bytes
U256_try_from(str) ==
    LET d == HexBytes_try_from(str)
    IN  IF d.tag = "Err" THEN d
        ELSE IF Len(d.val) # U256Len THEN [tag |-> "Err"]
        ELSE d

\* the error a failed utils conversion becomes through `?`
ParsingMethodError_from(e) == Err(<<"BadBytesConvert">>)

RECURSIVE values_of(_, _)
\* the `for mb in notify.merkle_branch` loop of TryFrom<Notify> for Message
values_of(merkle_branch, i) ==
    IF i > Len(merkle_branch) THEN <<>>
    ELSE <<U256_into_value(merkle_branch[i])>> \o values_of(merkle_branch, i + 1)

\* TryFrom<Notify> for Message with coin_base1 and coin_base2 exchanged
Notify_into_message_coinbases_exchanged(notify) ==
    Ok(Notification("mining.notify",
          JArrary(<<JString(notify.job_id),
                    U256_into_value(notify.prev_hash),
                    HexBytes_into_value(notify.coin_base2),
                    HexBytes_into_value(notify.coin_base1),
                    JArrary(values_of(notify.merkle_branch, 1)),
                    HexU32Be_into_value(notify.version),
                    HexU32Be_into_value(notify.bits),
                    HexU32Be_into_value(notify.time),
                    JBool(notify.clean_jobs)>>)))

\* TryFrom<Notify> for Message
Notify_into_message(notify) ==
    Ok(Notification("mining.notify",
          JArrary(<<JString(notify.job_id),
                    U256_into_value(notify.prev_hash),
                    HexBytes_into_value(notify.coin_base1),
                    HexBytes_into_value(notify.coin_base2),
                    JArrary(values_of(notify.merkle_branch, 1)),
                    HexU32Be_into_value(notify.version),
                    HexU32Be_into_value(notify.bits),
                    HexU32Be_into_value(notify.time),
                    JBool(notify.clean_jobs)>>)))

RECURSIVE nodes_of(_, _, _)
\* the `for h in merkle_branch_` loop of TryFrom<Notification> for Notify
nodes_of(merkle_branch_, i, merkle_branch) ==
    IF i > Len(merkle_branch_) THEN Ok(merkle_branch)
    ELSE IF merkle_branch_[i].j # "String" THEN Err(<<"NotString">>)
    ELSE LET h == U256_try_from(merkle_branch_[i].s)
         IN  IF h.tag = "Err" THEN ParsingMethodError_from(h)
             ELSE nodes_of(merkle_branch_, i + 1, Append(merkle_branch, h.val))

\* the type pattern of the nine positional parameters
NotifyPattern ==
    <<"String", "String", "String", "String", "Array",
      "String", "String", "String", "Bool">>

\* TryFrom<Notification> for Notify
Notify_try_from(msg) ==
    IF msg.params.j # "Array" THEN Err(<<"NotArray">>)
    ELSE LET params == msg.params.a
         IN  IF [i \in DOMAIN params |-> params[i].j] # NotifyPattern
             THEN Err(<<"WrongArgs">>)
             ELSE LET prev_hash == U256_try_from(params[2].s)
                      coin_base1 == HexBytes_try_from(params[3].s)
                      coin_base2 == HexBytes_try_from(params[4].s)
                      version == HexU32Be_try_from(params[6].s)
                      bits == HexU32Be_try_from(params[7].s)
                      time == HexU32Be_try_from(params[8].s)
                      merkle_branch == nodes_of(params[5].a, 1, <<>>)
                  IN  IF prev_hash.tag = "Err" THEN ParsingMethodError_from(prev_hash)
                      ELSE IF coin_base1.tag = "Err" THEN ParsingMethodError_from(coin_base1)
                      ELSE IF coin_base2.tag = "Err" THEN ParsingMethodError_from(coin_base2)
                      ELSE IF version.tag = "Err" THEN ParsingMethodError_from(version)
                      ELSE IF bits.tag = "Err" THEN ParsingMethodError_from(bits)
                      ELSE IF time.tag = "Err" THEN ParsingMethodError_from(time)
                      ELSE IF merkle_branch.tag = "Err" THEN merkle_branch
                      ELSE Ok([job_id |-> params[1].s,
                               prev_hash |-> prev_hash.val,
                               coin_base1 |-> coin_base1.val,
                               coin_base2 |-> coin_base2.val,
                               merkle_branch |-> merkle_branch.val,
                               version |-> version.val,
                               bits |-> bits.val,
                               time |-> time.val,
                               clean_jobs |-> params[9].b])

\* TryFrom<SetVersionMask> for Message
SetVersionMask_into_message(sv) ==
    Ok(Notification("mining.set_version",
                    JArrary(<<HexU32Be_into_value(sv.version_mask)>>)))

\* the version-rolling part with no key required: an incomplete set of keys
\* is taken as no version rolling
version_rolling_of_any_key_optional(params) ==
    LET version_rolling_ == Map_get(params, "version-rolling")
        version_rolling_mask == Map_get(params, "version-rolling.mask")
        version_rolling_min_bit_count == Map_get(params, "version-rolling.min-bit-count")
    IN  IF version_rolling_ # None /\ version_rolling_mask # None
        THEN IF version_rolling_.val.j # "Bool" THEN Err(<<"UnexpectedObjectParams">>)
             ELSE IF version_rolling_mask.val.j # "String"
             THEN Err(<<"UnexpectedObjectParams">>)
             ELSE LET mask == HexU32Be_try_from(version_rolling_mask.val.s)
                  IN  IF mask.tag = "Err" THEN ParsingMethodError_from(mask)
                      ELSE IF version_rolling_min_bit_count = None
                      THEN Ok(Some([version_rolling |-> version_rolling_.val.b,
                                    version_rolling_mask |-> mask.val,
                                    version_rolling_min_bit_count |-> 0]))
                      ELSE IF version_rolling_min_bit_count.val.j # "String"
                      THEN Err(<<"UnexpectedObjectParams">>)
                      ELSE LET bits == HexU32Be_try_from(version_rolling_min_bit_count.val.s)
                           IN  IF bits.tag = "Err" THEN ParsingMethodError_from(bits)
                               ELSE Ok(Some([version_rolling |-> version_rolling_.val.b,
                                             version_rolling_mask |-> mask.val,
                                             version_rolling_min_bit_count |-> bits.val]))
        ELSE IF version_rolling_ = None /\ version_rolling_mask = None
                /\ version_rolling_min_bit_count = None
        THEN Ok(None)
        ELSE Ok(None)

\* the version-rolling part of Configure::try_from: Ok(Option<VersionRollingParams>)
version_rolling_of(params) ==
    LET version_rolling_ == Map_get(params, "version-rolling")
        version_rolling_mask == Map_get(params, "version-rolling.mask")
        version_rolling_min_bit_count == Map_get(params, "version-rolling.min-bit-count")
    IN  IF version_rolling_ # None /\ version_rolling_mask # None
        THEN IF version_rolling_.val.j # "Bool" THEN Err(<<"UnexpectedObjectParams">>)
             ELSE IF version_rolling_mask.val.j # "String"
             THEN Err(<<"UnexpectedObjectParams">>)
             ELSE LET mask == HexU32Be_try_from(version_rolling_mask.val.s)
                  IN  IF mask.tag = "Err" THEN ParsingMethodError_from(mask)
                      ELSE IF version_rolling_min_bit_count = None
                      THEN Ok(Some([version_rolling |-> version_rolling_.val.b,
                                    version_rolling_mask |-> mask.val,
                                    version_rolling_min_bit_count |-> 0]))
                      ELSE IF version_rolling_min_bit_count.val.j # "String"
                      THEN Err(<<"UnexpectedObjectParams">>)
                      ELSE LET bits == HexU32Be_try_from(version_rolling_min_bit_count.val.s)
                           IN  IF bits.tag = "Err" THEN ParsingMethodError_from(bits)
                               ELSE Ok(Some([version_rolling |-> version_rolling_.val.b,
                                             version_rolling_mask |-> mask.val,
                                             version_rolling_min_bit_count |-> bits.val]))
        ELSE IF version_rolling_ = None /\ version_rolling_mask = None
                /\ version_rolling_min_bit_count = None
        THEN Ok(None)
        ELSE Err(<<"UnexpectedObjectParams">>)

\* Configure::try_from that takes min-bit-count for absent
Configure_try_from_without_min_bit_count(msg) ==
    IF msg.result.j # "Object" THEN Err(<<"ImpossibleToParseResultField">>)
    ELSE LET params == msg.result.o
             version_rolling_ == Map_get(params, "version-rolling")
             version_rolling_mask == Map_get(params, "version-rolling.mask")
             mask == HexU32Be_try_from(version_rolling_mask.val.s)
             minimum_difficulty == Map_get(params, "minimum-difficulty")
         IN  IF version_rolling_ # None /\ version_rolling_mask # None
             THEN IF version_rolling_.val.j # "Bool" \/ version_rolling_mask.val.j # "String"
                     \/ (minimum_difficulty # None /\ minimum_difficulty.val.j # "Bool")
                  THEN Err(<<"UnexpectedObjectParams">>)
                  ELSE IF mask.tag = "Err" THEN ParsingMethodError_from(mask)
                  ELSE Ok([id |-> msg.id,
                           version_rolling |->
                             Some([version_rolling |-> version_rolling_.val.b,
                                   version_rolling_mask |-> mask.val,
                                   version_rolling_min_bit_count |-> 0]),
                           minimum_difficulty |->
                             IF minimum_difficulty = None THEN None
                             ELSE Some(minimum_difficulty.val.b)])
             ELSE Err(<<"UnexpectedObjectParams">>)

\* TryFrom<&Response> for Configure
Configure_try_from(msg) ==
    IF msg.result.j # "Object" THEN Err(<<"ImpossibleToParseResultField">>)
    ELSE LET params == msg.result.o
             version_rolling == version_rolling_of(params)
             minimum_difficulty == Map_get(params, "minimum-difficulty")
         IN  IF version_rolling.tag = "Err" THEN version_rolling
             ELSE IF minimum_difficulty # None /\ minimum_difficulty.val.j # "Bool"
             THEN Err(<<"UnexpectedObjectParams">>)
             ELSE Ok([id |-> msg.id,
                      version_rolling |-> version_rolling.val,
                      minimum_difficulty |->
                        IF minimum_difficulty = None THEN None
                        ELSE Some(minimum_difficulty.val.b)])

\* From<Subscribe> for Message
Subscribe_into_message(su) ==
    OkResponse(su.id,
        JArrary(<<JArrary([i \in DOMAIN su.subscriptions |->
                             JArrary(<<JString(su.subscriptions[i][1]),
                                       JString(su.subscriptions[i][2])>>)]),
                  JString(hex_encode(su.extra_nonce1)),
                  JNumber(su.extra_nonce2_size)>>))

(***************************************************************************)
(* A u32 that uses all 32 bits is the record [hi, lo] of its two 16-bit    *)
(* halves, the value being hi * 2^16 + lo.                                 *)
(***************************************************************************)

TwoPow16 == 65536

U32Halves(hi, lo) == [hi |-> hi, lo |-> lo]

\* the bitwise `&` of two numbers below 2^n
RECURSIVE BitAnd(_, _, _)
BitAnd(a, b, n) ==
    IF n = 0 THEN 0
    ELSE 2 * BitAnd(a \div 2, b \div 2, n - 1) + (a % 2) * (b % 2)

\* HexU32Be & u32
HexU32Be_bitand(a, b) ==
    U32Halves(BitAnd(a.hi, b.hi, 16), BitAnd(a.lo, b.lo, 16))

\* u32 >> 29: the three top bits of the high half
Shr29(a) == U32Halves(0, a.hi \div 8192)

\* u32 << 19: the bits shifted beyond bit 31 are dropped
Shl19(a) == U32Halves((a.lo * 8) % TwoPow16, 0)

\* 0x1FFFE000
VersionMask == U32Halves(8191, 57344)

\* VersionRollingParams::new without the `&`: the mask is taken as given
VersionRollingParams_new_unmasked(version_rolling_mask, version_rolling_min_bit_count) ==
    LET negotiated_mask == version_rolling_mask
        version_head_ok == Shr29(negotiated_mask) = U32Halves(0, 0)
        version_tail_ok == Shl19(negotiated_mask) = U32Halves(0, 0)
    IN  IF version_head_ok /\ version_tail_ok
        THEN Ok([version_rolling |-> TRUE,
                 version_rolling_mask |-> negotiated_mask,
                 version_rolling_min_bit_count |-> version_rolling_min_bit_count])
        ELSE Err(<<"InvalidVersionMask", version_rolling_mask>>)

\* VersionRollingParams::new
VersionRollingParams_new(version_rolling_mask, version_rolling_min_bit_count) ==
    LET negotiated_mask == HexU32Be_bitand(version_rolling_mask, VersionMask)
        version_head_ok == Shr29(negotiated_mask) = U32Halves(0, 0)
        version_tail_ok == Shl19(negotiated_mask) = U32Halves(0, 0)
    IN  IF version_head_ok /\ version_tail_ok
        THEN Ok([version_rolling |-> TRUE,
                 version_rolling_mask |-> negotiated_mask,
                 version_rolling_min_bit_count |-> version_rolling_min_bit_count])
        ELSE Err(<<"InvalidVersionMask", version_rolling_mask>>)

\* Extranonce::try_from(&str): the hex decoding of the string
Extranonce_try_from(str) == HexBytes_try_from(str)

\* the loop of Subscribe::try_from over the subscriptions: an element that
\* is no array panics at the unwrap of line 413
RECURSIVE subscriptions_of(_, _, _)
subscriptions_of(subscriptions_, i, subscriptions) ==
    IF i > Len(subscriptions_) THEN Ok(subscriptions)
    ELSE LET s == subscriptions_[i]
         IN  IF s.j # "Array" THEN Panic(413)
             ELSE IF Len(s.a) # 2 THEN Err(<<"UnexpectedArrayParams">>)
             ELSE IF s.a[1].j # "String" THEN Err(<<"UnexpectedArrayParams">>)
             ELSE IF s.a[2].j # "String" THEN Err(<<"UnexpectedArrayParams">>)
             ELSE subscriptions_of(subscriptions_, i + 1,
                                   Append(subscriptions, <<s.a[1].s, s.a[2].s>>))

\* TryFrom<&Response> for Subscribe
Subscribe_try_from(msg) ==
    IF msg.result.j # "Array" THEN Err(<<"ImpossibleToParseResultField">>)
    ELSE LET params == msg.result.a
         IN  IF [i \in DOMAIN params |-> params[i].j] # <<"Array", "String", "Number">>
             THEN Err(<<"UnexpectedArrayParams">>)
             ELSE LET extra_nonce1 == Extranonce_try_from(params[2].s)
                      subscriptions == subscriptions_of(params[1].a, 1, <<>>)
                  IN  IF extra_nonce1.tag = "Err" THEN ParsingMethodError_from(extra_nonce1)
                      ELSE IF params[3].n < 0 THEN Err(<<"ImpossibleToParseAsU64">>)
                      ELSE IF subscriptions.tag # "Ok" THEN subscriptions
                      ELSE Ok([id |-> msg.id,
                               extra_nonce1 |-> extra_nonce1.val,
                               extra_nonce2_size |-> params[3].n,
                               subscriptions |-> subscriptions.val])

\* the extranonce2-size constant of downstream_sv1
ExtraNonce2Size == 4

\* the difficulty downstream_sv1::new_difficulty() hands out, as its string
Difficulty == <<49>>

\* the counter value as the four big-endian bytes of an extranonce or id
to_be_bytes(n) == [i \in 1 .. 4 |-> (n \div (256 ^ (4 - i))) % 256]

\* downstream_sv1::new_extranonce()
new_extranonce(ds) == to_be_bytes(ds.extranonce)

\* downstream_sv1::new_subscription_id(), converted to its String
new_subscription_id(ds) == hex_encode(to_be_bytes(ds.subscription_id))

\* format!("[\"mining.set_difficulty\", \"{}\"]", difficulty)
format_set_difficulty(difficulty) ==
    <<91, 34, 109, 105, 110, 105, 110, 103, 46, 115, 101, 116, 95, 100, 105, 102, 102, 105, 99, 117, 108, 116, 121, 34, 44, 32, 34>> \o difficulty \o <<34, 93>>

\* format!("[\"mining.notify\", \"{}\"]", subscription_id)
format_notify(subscription_id) ==
    <<91, 34, 109, 105, 110, 105, 110, 103, 46, 110, 111, 116, 105, 102, 121, 34, 44, 32, 34>> \o subscription_id \o <<34, 93>>

\* create_subscribe_response that names the difficulty in both strings
create_subscribe_response_without_id(self, ds) ==
    Subscribe_into_message(
        [id |-> 1,
         extra_nonce1 |-> new_extranonce(ds),
         extra_nonce2_size |-> ExtraNonce2Size,
         subscriptions |-> << <<format_set_difficulty(Difficulty),
                                format_notify(Difficulty)>> >>])

\* NextMiningNotify::create_subscribe_response; ds is the state of the
\* downstream_sv1 generators when it is called
create_subscribe_response(self, ds) ==
    LET extra_nonce1 == new_extranonce(ds)
        extra_nonce2_size == ExtraNonce2Size
        set_difficulty_str == format_set_difficulty(Difficulty)
        notify_str == format_notify(new_subscription_id(ds))
    IN  Subscribe_into_message(
            [id |-> 1,
             extra_nonce1 |-> extra_nonce1,
             extra_nonce2_size |-> extra_nonce2_size,
             subscriptions |-> << <<set_difficulty_str, notify_str>> >>])

\* most subscribe responses sent on one connection
MaxSubscribes == 3

\* two 32-byte hashes
Hash1 == [i \in 1 .. U256Len |-> 77]
Hash2 == [i \in 1 .. U256Len |-> IF i = 1 THEN 0 ELSE 255]

Notifies ==
    [job_id : {<<52, 102>>, <<>>},
     prev_hash : {Hash1, Hash2},
     coin_base1 : {<<>>, <<1, 0>>},
     coin_base2 : {<<255, 171>>},
     merkle_branch : {<<>>, <<Hash2, Hash1>>},
     version : {2},
     bits : {472564911},
     time : {1347323577},
     clean_jobs : BOOLEAN]

\* the parameters of a mining.notify as a server sends them
NotifyParams(coin_base1, version, clean_jobs) ==
    JArrary(<<JString(<<52, 102>>), JString(hex_encode(Hash1)), JString(coin_base1),
              JString(<<48, 55, 50, 102>>), JArrary(<<JString(hex_encode(Hash1))>>),
              JString(version), JString(<<49, 99, 50, 97, 99, 52, 97, 102>>), JString(<<53, 48, 52, 101, 56, 54, 98, 57>>), clean_jobs>>)

\* notifications from a peer: in the form this code writes them, with an
\* upper-case digit, with a version without leading zeros, and ill-typed
ReceivedNotifications ==
    {Notification("mining.notify", NotifyParams(<<48, 49, 97, 98>>, <<48, 48, 48, 48, 48, 48, 48, 50>>, JBool(FALSE))),
     Notification("mining.notify", NotifyParams(<<48, 49, 65, 66>>, <<48, 48, 48, 48, 48, 48, 48, 50>>, JBool(FALSE))),
     Notification("mining.notify", NotifyParams(<<48, 49, 97, 98>>, <<50>>, JBool(TRUE))),
     Notification("mining.notify", NotifyParams(<<48, 49, 97, 98>>, <<48, 48, 48, 48, 48, 48, 48, 50>>, JString(<<50>>))),
     Notification("mining.notify", NotifyParams(<<50>>, <<48, 48, 48, 48, 48, 48, 48, 50>>, JBool(FALSE))),
     Notification("mining.notify", JArrary(<<JString(<<52, 102>>)>>)),
     Notification("mining.notify", JBool(TRUE))}

VersionMasks == {0, 536862720}

\* the result objects of mining.configure responses: each key absent or
\* present with a well-typed or an ill-typed value
ConfigureKeys ==
    {"version-rolling", "version-rolling.mask",
     "version-rolling.min-bit-count", "minimum-difficulty"}

ConfigureValues(k) ==
    CASE k = "version-rolling" -> {JBool(TRUE), JBool(FALSE), JString(<<50>>)}
      [] k = "version-rolling.mask" -> {JString(<<49, 102, 102, 102, 101, 48, 48, 48>>), JString(<<49, 102, 102, 102, 101, 48, 48, 103>>)}
      [] k = "version-rolling.min-bit-count" -> {JString(<<48, 48, 48, 48, 48, 48, 48, 53>>), JNumber(5)}
      [] k = "minimum-difficulty" -> {JBool(TRUE), JBool(FALSE), JNumber(1)}

\* Some of each value a key can carry, None for the key left out
Present(k) == {None} \cup {Some(v) : v \in ConfigureValues(k)}

\* the object holding the keys given as Some
ResultObject(vr, mask, min_bit_count, min_diff) ==
    LET f == [k \in ConfigureKeys |->
                 CASE k = "version-rolling" -> vr
                   [] k = "version-rolling.mask" -> mask
                   [] k = "version-rolling.min-bit-count" -> min_bit_count
                   [] k = "minimum-difficulty" -> min_diff]
    IN  [k \in {x \in ConfigureKeys : f[x] # None} |-> f[k].val]

ConfigureResults ==
    {ResultObject(vr, mask, min_bit_count, min_diff) :
        vr \in Present("version-rolling"),
        mask \in Present("version-rolling.mask"),
        min_bit_count \in Present("version-rolling.min-bit-count"),
        min_diff \in Present("minimum-difficulty")}

Sv1Start ==
    /\ v1_call = [op |-> "none", src |-> None, input |-> None, out |-> NotCalled]
    /\ downstream_sv1 = [extranonce |-> 0, subscription_id |-> 0]
    /\ subscribe_responses = <<>>

\* Message::try_from(notify) for a Notify of the server
NotifyToMessage ==
    /\ \E n \in Notifies :
          v1_call' = [op |-> "Notify -> Message", src |-> None,
                      input |-> Some(n), out |-> Notify_into_message(n)]
    /\ UNCHANGED <<downstream_sv1, subscribe_responses>>
    /\ UNCHANGED <<bridge_vars, frame_vars, codec_vars, noise_vars, binary_vars, proxy_vars, send_vars, handler_vars, job_vars, lock_vars>>

\* Notify::try_from(msg) for a notification a peer sent
NotifyFromReceived ==
    /\ \E msg \in ReceivedNotifications :
          v1_call' = [op |-> "Notification -> Notify", src |-> None,
                      input |-> Some(msg), out |-> Notify_try_from(msg)]
    /\ UNCHANGED <<downstream_sv1, subscribe_responses>>
    /\ UNCHANGED <<bridge_vars, frame_vars, codec_vars, noise_vars, binary_vars, proxy_vars, send_vars, handler_vars, job_vars, lock_vars>>

\* Notify::try_from on the message the last conversion produced
NotifyParseBack ==
    /\ v1_call.op = "Notify -> Message"
    /\ v1_call.out.tag = "Ok"
    /\ v1_call' = [op |-> "Notification -> Notify", src |-> v1_call.input,
                   input |-> Some(v1_call.out.val),
                   out |-> Notify_try_from(v1_call.out.val)]
    /\ UNCHANGED <<downstream_sv1, subscribe_responses>>
    /\ UNCHANGED <<bridge_vars, frame_vars, codec_vars, noise_vars, binary_vars, proxy_vars, send_vars, handler_vars, job_vars, lock_vars>>

\* Message::try_from on the Notify the last conversion parsed
NotifyReserialize ==
    /\ v1_call.op = "Notification -> Notify"
    /\ v1_call.out.tag = "Ok"
    /\ v1_call' = [op |-> "Notify -> Message", src |-> v1_call.input,
                   input |-> Some(v1_call.out.val),
                   out |-> Notify_into_message(v1_call.out.val)]
    /\ UNCHANGED <<downstream_sv1, subscribe_responses>>
    /\ UNCHANGED <<bridge_vars, frame_vars, codec_vars, noise_vars, binary_vars, proxy_vars, send_vars, handler_vars, job_vars, lock_vars>>

\* Message::try_from(SetVersionMask { version_mask })
SetVersionMaskToMessage ==
    /\ \E m \in VersionMasks :
          v1_call' = [op |-> "SetVersionMask -> Message", src |-> None,
                      input |-> Some([version_mask |-> m]),
                      out |-> SetVersionMask_into_message([version_mask |-> m])]
    /\ UNCHANGED <<downstream_sv1, subscribe_responses>>
    /\ UNCHANGED <<bridge_vars, frame_vars, codec_vars, noise_vars, binary_vars, proxy_vars, send_vars, handler_vars, job_vars, lock_vars>>

\* Configure::try_from(&response) for a mining.configure response
ConfigureFromResponse ==
    /\ \E result \in {JObject(o) : o \in ConfigureResults} \cup {JArrary(<<>>)} :
          LET msg == [id |-> 0, error |-> None, result |-> result]
          IN  v1_call' = [op |-> "Response -> Configure", src |-> None,
                          input |-> Some(msg), out |-> Configure_try_from(msg)]
    /\ UNCHANGED <<downstream_sv1, subscribe_responses>>
    /\ UNCHANGED <<bridge_vars, frame_vars, codec_vars, noise_vars, binary_vars, proxy_vars, send_vars, handler_vars, job_vars, lock_vars>>

\* entries a subscriptions array can hold: pairs of strings, a pair with a
\* number, a single string in an array, three strings, a bare string, a number
SubscriptionEntries ==
    {JArrary(<<JString(<<97>>), JString(<<98>>)>>),
     JArrary(<<JString(<<97>>), JNumber(1)>>),
     JArrary(<<JString(<<97>>)>>),
     JArrary(<<JString(<<97>>), JString(<<98>>), JString(<<99>>)>>),
     JString(<<97>>),
     JNumber(1)}

SubscriptionArrays ==
    {<<>>} \cup {<<e>> : e \in SubscriptionEntries}
           \cup {<<JArrary(<<JString(<<97>>), JString(<<98>>)>>), e>> :
                    e \in SubscriptionEntries}

\* results of a mining.subscribe response: of the shape [array, string,
\* number], and of other shapes
SubscribeResults ==
    {JArrary(<<JArrary(a), JString(x), JNumber(n)>>) :
        a \in SubscriptionArrays, x \in {<<48, 49>>, <<48, 49, 97, 98>>}, n \in {4, -1}}
    \cup {JArrary(<<JArrary(<<>>), JString(<<48, 49>>)>>),
          JArrary(<<JArrary(<<>>), JNumber(1), JNumber(4)>>),
          JArrary(<<JString(<<97>>), JString(<<48, 49>>), JNumber(4)>>),
          JArrary(<<>>), JString(<<97>>), JObject(<<>>)}

\* Subscribe::try_from(&response) for a mining.subscribe response
SubscribeFromResponse ==
    /\ \E result \in SubscribeResults :
          LET msg == [id |-> 0, error |-> None, result |-> result]
          IN  v1_call' = [op |-> "Response -> Subscribe", src |-> None,
                          input |-> Some(msg), out |-> Subscribe_try_from(msg)]
    /\ UNCHANGED <<downstream_sv1, subscribe_responses>>
    /\ UNCHANGED <<bridge_vars, frame_vars, codec_vars, noise_vars, binary_vars, proxy_vars, send_vars, handler_vars, job_vars, lock_vars>>

\* 16-bit halves that set and clear the bits next to the ends of the mask:
\* 0x0000, 0xffff, 0x1fff, 0xe000, 0x2000, 0x1000, 0x1234
Halves == {0, 65535, 8191, 57344, 8192, 4096, 4660}

AllU32 == {U32Halves(hi, lo) : hi \in Halves, lo \in Halves}

MinBitCounts == {U32Halves(0, 5), U32Halves(65535, 65535)}

\* VersionRollingParams::new(mask, min_bit_count)
VersionRollingParamsNew ==
    /\ \E m \in AllU32, c \in MinBitCounts :
          v1_call' = [op |-> "VersionRollingParams::new", src |-> None,
                      input |-> Some([version_rolling_mask |-> m,
                                      version_rolling_min_bit_count |-> c]),
                      out |-> VersionRollingParams_new(m, c)]
    /\ UNCHANGED <<downstream_sv1, subscribe_responses>>
    /\ UNCHANGED <<bridge_vars, frame_vars, codec_vars, noise_vars, binary_vars, proxy_vars, send_vars, handler_vars, job_vars, lock_vars>>

\* a mining.subscribe is answered: create_subscribe_response draws from the
\* generators, which move on
SubscribeResponse ==
    /\ Len(subscribe_responses) < MaxSubscribes
    /\ subscribe_responses' =
          Append(subscribe_responses, create_subscribe_response(nmn, downstream_sv1))
    /\ downstream_sv1' = [extranonce |-> downstream_sv1.extranonce + 1,
                          subscription_id |-> downstream_sv1.subscription_id + 1]
    /\ UNCHANGED v1_call
    /\ UNCHANGED <<bridge_vars, frame_vars, codec_vars, noise_vars, binary_vars, proxy_vars, send_vars, handler_vars, job_vars, lock_vars>>

Sv1Next ==
    \/ NotifyToMessage
    \/ NotifyFromReceived
    \/ NotifyParseBack
    \/ NotifyReserialize
    \/ SetVersionMaskToMessage
    \/ ConfigureFromResponse
    \/ SubscribeFromResponse
    \/ VersionRollingParamsNew
    \/ SubscribeResponse

(***************************************************************************)
(* Future and active jobs (mining_sv2 new_mining_job.rs).  min_ntime is an *)
(* Sv2Option: on the wire and in memory a sequence of no or one element.   *)
(***************************************************************************)

\* Sv2Option::new
Sv2Option_new(option) == IF option = None THEN <<>> ELSE <<option.val>>

\* Sv2Option::into_inner
Sv2Option_into_inner(self) == IF Len(self) = 0 THEN None ELSE Some(self[1])

\* NewMiningJob::is_future
NewMiningJob_is_future(self) == Sv2Option_into_inner(self.min_ntime) = None

\* NewMiningJob::set_future
NewMiningJob_set_future(self) == [self EXCEPT !.min_ntime = Sv2Option_new(None)]

\* NewMiningJob::set_no_future
NewMiningJob_set_no_future(self, min_ntime) ==
    [self EXCEPT !.min_ntime = Sv2Option_new(Some(min_ntime))]

\* NewExtendedMiningJob::is_future
NewExtendedMiningJob_is_future(self) == Sv2Option_into_inner(self.min_ntime) = None

\* NewExtendedMiningJob::set_future
NewExtendedMiningJob_set_future(self) == [self EXCEPT !.min_ntime = Sv2Option_new(None)]

\* set_no_future that keeps the min_ntime of a job that is already active
NewExtendedMiningJob_set_no_future_once(self, min_ntime) ==
    IF Len(self.min_ntime) = 0
    THEN [self EXCEPT !.min_ntime = Sv2Option_new(Some(min_ntime))]
    ELSE self

\* NewExtendedMiningJob::set_no_future
NewExtendedMiningJob_set_no_future(self, min_ntime) ==
    [self EXCEPT !.min_ntime = Sv2Option_new(Some(min_ntime))]

JobKinds == {"NewMiningJob", "NewExtendedMiningJob"}

NTimes == {0, 1347323577}

Sv2Options == {<<>>} \cup {<<t>> : t \in NTimes}

NewMiningJobs ==
    [channel_id : {1, 2}, job_id : {1, 79}, min_ntime : Sv2Options,
     version : {2}, merkle_root : {Hash1}]

NewExtendedMiningJobs ==
    [channel_id : {1, 2}, job_id : {1, 79}, min_ntime : Sv2Options,
     version : {2}, version_rolling_allowed : {TRUE},
     merkle_path : {<<>>, <<Hash1>>},
     coinbase_tx_prefix : {<<48, 49>>}, coinbase_tx_suffix : {<<48, 49>>}]

JobCall(kind, op, min_ntime, res) ==
    [kind |-> kind, op |-> op, min_ntime |-> min_ntime, before |-> mining_job,
     res |-> res]

JobStart ==
    /\ mining_job =
          [NewMiningJob |->
              [channel_id |-> 1, job_id |-> 1, min_ntime |-> <<>>, version |-> 2,
               merkle_root |-> Hash1],
           NewExtendedMiningJob |->
              [channel_id |-> 1, job_id |-> 1, min_ntime |-> <<>>, version |-> 2,
               version_rolling_allowed |-> TRUE, merkle_path |-> <<>>,
               coinbase_tx_prefix |-> <<48, 49>>, coinbase_tx_suffix |-> <<48, 49>>]]
    /\ job_call = [kind |-> "none", op |-> "none", min_ntime |-> None,
                   before |-> mining_job, res |-> None]

\* a NewMiningJob arrives from upstream and replaces the one held
ReceiveNewMiningJob ==
    /\ \E m \in NewMiningJobs :
          mining_job' = [mining_job EXCEPT !.NewMiningJob = m]
    /\ job_call' = JobCall("NewMiningJob", "receive", None, None)
    /\ UNCHANGED <<bridge_vars, frame_vars, codec_vars, noise_vars, binary_vars, proxy_vars, send_vars, handler_vars, sv1_vars, lock_vars>>

\* a NewExtendedMiningJob arrives from upstream and replaces the one held
ReceiveNewExtendedMiningJob ==
    /\ \E m \in NewExtendedMiningJobs :
          mining_job' = [mining_job EXCEPT !.NewExtendedMiningJob = m]
    /\ job_call' = JobCall("NewExtendedMiningJob", "receive", None, None)
    /\ UNCHANGED <<bridge_vars, frame_vars, codec_vars, noise_vars, binary_vars, proxy_vars, send_vars, handler_vars, sv1_vars, lock_vars>>

IsFuture ==
    /\ \/ job_call' = JobCall("NewMiningJob", "is_future", None,
                          Some(NewMiningJob_is_future(mining_job.NewMiningJob)))
       \/ job_call' = JobCall("NewExtendedMiningJob", "is_future", None,
                          Some(NewExtendedMiningJob_is_future(mining_job.NewExtendedMiningJob)))
    /\ UNCHANGED mining_job
    /\ UNCHANGED <<bridge_vars, frame_vars, codec_vars, noise_vars, binary_vars, proxy_vars, send_vars, handler_vars, sv1_vars, lock_vars>>

SetFuture ==
    /\ \/ /\ mining_job' = [mining_job EXCEPT !.NewMiningJob =
                                NewMiningJob_set_future(mining_job.NewMiningJob)]
          /\ job_call' = JobCall("NewMiningJob", "set_future", None, None)
       \/ /\ mining_job' = [mining_job EXCEPT !.NewExtendedMiningJob =
                                NewExtendedMiningJob_set_future(mining_job.NewExtendedMiningJob)]
          /\ job_call' = JobCall("NewExtendedMiningJob", "set_future", None, None)
    /\ UNCHANGED <<bridge_vars, frame_vars, codec_vars, noise_vars, binary_vars, proxy_vars, send_vars, handler_vars, sv1_vars, lock_vars>>

SetNoFuture ==
    /\ \E min_ntime \in NTimes :
          \/ /\ mining_job' = [mining_job EXCEPT !.NewMiningJob =
                                   NewMiningJob_set_no_future(mining_job.NewMiningJob, min_ntime)]
             /\ job_call' = JobCall("NewMiningJob", "set_no_future", Some(min_ntime), None)
          \/ /\ mining_job' = [mining_job EXCEPT !.NewExtendedMiningJob =
                                   NewExtendedMiningJob_set_no_future(
                                       mining_job.NewExtendedMiningJob, min_ntime)]
             /\ job_call' = JobCall("NewExtendedMiningJob", "set_no_future",
                                    Some(min_ntime), None)
    /\ UNCHANGED <<bridge_vars, frame_vars, codec_vars, noise_vars, binary_vars, proxy_vars, send_vars, handler_vars, sv1_vars, lock_vars>>

JobNext ==
    \/ ReceiveNewMiningJob
    \/ ReceiveNewExtendedMiningJob
    \/ IsFuture
    \/ SetFuture
    \/ SetNoFuture

(***************************************************************************)
(* add_job_id step by step.  Each safe_lock call takes the mutex, runs its *)
(* closure and releases the mutex; another thread can take the mutex       *)
(* between the two safe_lock calls of one add_job_id.                      *)
(***************************************************************************)

\* the first safe_lock of add_job_id (lines 191-195): remove prev_job_id
add_job_id_remove(mutex, prev_job_id) ==
    IF prev_job_id = None THEN [res |-> Ok(<<>>), mutex |-> mutex]
    ELSE IF mutex.poisoned THEN [res |-> Panic(194), mutex |-> mutex]
    ELSE [res |-> Ok(<<>>),
          mutex |-> [mutex EXCEPT !.map = HashMap_remove(mutex.map, prev_job_id.val)]]

\* the second safe_lock of add_job_id (lines 196-198): insert job_id
add_job_id_insert(mutex, job_id, up_id) ==
    IF mutex.poisoned THEN [res |-> Panic(198), mutex |-> mutex]
    ELSE [res |-> Ok(<<>>),
          mutex |-> [mutex EXCEPT !.map = HashMap_insert(mutex.map, job_id, up_id)]]

\* the job ids and upstream ids of the calls that are interleaved
LockJobIds == {0, 1}
LockUpstreamIds == {0, 1}

Idle == [pc |-> "idle", job_id |-> 0, up_id |-> 0, prev_job_id |-> None,
         before |-> <<>>, res |-> NotCalled]

LockStart ==
    /\ add_call = Idle
    /\ observer = [op |-> "none", job_id |-> 0, res |-> NotCalled, map |-> <<>>,
                   call |-> None]

\* a thread calls add_job_id and gets as far as the end of the first
\* safe_lock; a panic there ends the call
AddJobIdRemove ==
    /\ add_call.pc = "idle"
    /\ \E job_id \in LockJobIds, up_id \in LockUpstreamIds,
          prev_job_id \in {None} \cup {Some(j) : j \in LockJobIds} :
        LET r == add_job_id_remove(JOB_ID_TO_UPSTREAM_ID, prev_job_id)
        IN  /\ JOB_ID_TO_UPSTREAM_ID' = r.mutex
            /\ add_call' = IF r.res.tag = "Panic" THEN [Idle EXCEPT !.res = r.res]
                            ELSE [pc |-> "insert", job_id |-> job_id, up_id |-> up_id,
                                  prev_job_id |-> prev_job_id,
                                  before |-> JOB_ID_TO_UPSTREAM_ID.map, res |-> r.res]
    /\ UNCHANGED <<observer, proxy_res>>
    /\ UNCHANGED <<bridge_vars, frame_vars, codec_vars, noise_vars, binary_vars, send_vars, handler_vars, sv1_vars, job_vars>>

\* the thread goes through the second safe_lock and add_job_id returns
AddJobIdInsert ==
    /\ add_call.pc = "insert"
    /\ LET r == add_job_id_insert(JOB_ID_TO_UPSTREAM_ID, add_call.job_id, add_call.up_id)
       IN  /\ JOB_ID_TO_UPSTREAM_ID' = r.mutex
           /\ add_call' = [Idle EXCEPT !.res = r.res]
    /\ UNCHANGED <<observer, proxy_res>>
    /\ UNCHANGED <<bridge_vars, frame_vars, codec_vars, noise_vars, binary_vars, send_vars, handler_vars, sv1_vars, job_vars>>

\* another thread calls upstream_from_job_id
Observe ==
    /\ \E job_id \in LockJobIds :
        LET r == upstream_from_job_id(JOB_ID_TO_UPSTREAM_ID, job_id)
        IN  /\ JOB_ID_TO_UPSTREAM_ID' = r.mutex
            /\ observer' = [op |-> "upstream_from_job_id", job_id |-> job_id,
                            res |-> r.res, map |-> JOB_ID_TO_UPSTREAM_ID.map,
                            call |-> IF add_call.pc = "insert" THEN Some(add_call)
                                     ELSE None]
    /\ UNCHANGED <<add_call, proxy_res>>
    /\ UNCHANGED <<bridge_vars, frame_vars, codec_vars, noise_vars, binary_vars, send_vars, handler_vars, sv1_vars, job_vars>>

LockNext ==
    \/ AddJobIdRemove
    \/ AddJobIdInsert
    \/ Observe

Init ==
    /\ BridgeStart /\ FrameStart /\ CodecStart
    /\ NoiseStart /\ BinaryStart /\ ProxyStart
    /\ SendStart
    /\ HandlerStart
    /\ Sv1Start
    /\ JobStart
    /\ LockStart

SpecBridge == Init /\ [][BridgeNext]_vars

SpecFrame == Init /\ [][FrameNext]_vars

SpecCodec == Init /\ [][CodecNext]_vars

SpecNoise == Init /\ [][NoiseNext]_vars

SpecProxy == Init /\ [][ProxyNext]_vars

SpecBinary == Init /\ [][BinaryNext]_vars

SpecSend == Init /\ [][SendNext]_vars

SpecHandlers == Init /\ [][HandlerNext]_vars

SpecSv1 == Init /\ [][Sv1Next]_vars

SpecJob == Init /\ [][JobNext]_vars

SpecLocks == Init /\ [][LockNext]_vars

(***************************************************************************)
(* Properties                                                              *)
(***************************************************************************)

\* both setters have been called at least once
BothSettersCalled == nmn_calls.set_new_prev_hash /\ nmn_calls.new_extended_mining_job

\* C1: every create_notify call returns Some when each of the two setters
\* has been called at least once, and returns None in every other state.
C1_NotifyIffBothSettersCalled ==
    [][CreateNotify =>
         IF BothSettersCalled THEN notify_res'.tag = "Some"
         ELSE notify_res'.tag = "None"]_vars

\* msg_length as the header at the front of `bytes` declares it
DeclaredLength == Header_from_bytes(bytes).val.msg_length

HasHeader == Len(bytes) >= Header_SIZE

\* C2: for a buffer with a full header but fewer than 6 + msg_length bytes,
\* size_hint is minus the number of missing bytes and from_bytes returns
\* that value as Err.
C2_MissingBytesAreNegative ==
    (HasHeader /\ Len(bytes) < Header_SIZE + DeclaredLength) =>
        /\ hint.tag = "Called" =>
              hint.val = 0 - (Header_SIZE + DeclaredLength - Len(bytes))
        /\ frame_res.tag # "NotCalled" =>
              frame_res = [tag |-> "Err",
                           err |-> 0 - (Header_SIZE + DeclaredLength - Len(bytes))]

\* C3: for a buffer of at least 6 bytes, size_hint is 0 exactly when the
\* bytes after the header number msg_length; from_bytes returns Ok(frame)
\* exactly then, and otherwise Err(size_hint) with a non-zero value.
C3_ZeroHintExactlyWhenComplete ==
    HasHeader =>
        /\ hint.tag = "Called" =>
              (hint.val = 0 <=> Len(bytes) - Header_SIZE = DeclaredLength)
        /\ frame_res.tag # "NotCalled" =>
              /\ frame_res.tag = "Ok" <=> Len(bytes) - Header_SIZE = DeclaredLength
              /\ frame_res.tag = "Ok" =>
                    frame_res.val = [variant |-> "Raw",
                                     header |-> Header_from_bytes(bytes).val,
                                     serialized |-> bytes]
              /\ frame_res.tag # "Ok" => frame_res.tag = "Err" /\ frame_res.err # 0
              /\ (frame_res.tag = "Err" /\ hint.tag = "Called") => frame_res.err = hint.val
              /\ (frame_res.tag = "Ok" /\ hint.tag = "Called") => hint.val = 0

C3_Witness ==
    /\ HasHeader /\ DeclaredLength > 0
    /\ hint = [tag |-> "Called", val |-> 0]
    /\ frame_res.tag = "Ok"

\* C4: for a buffer shorter than 6 bytes, the empty one included, size_hint
\* is the positive number 6 - len of header bytes still missing.
C4_ShortHeaderHint ==
    (~HasHeader /\ hint.tag = "Called") =>
        hint.val = Header_SIZE - Len(bytes) /\ hint.val > 0

C4_Witness ==
    /\ Len(bytes) = 2
    /\ hint = [tag |-> "Called", val |-> 4]

\* C5: for a buffer with a complete frame and surplus bytes after it,
\* size_hint is the positive surplus len - 6 - msg_length.
C5_SurplusIsTheExcess ==
    (HasHeader /\ Len(bytes) > Header_SIZE + DeclaredLength /\ hint.tag = "Called") =>
        hint.val = Len(bytes) - Header_SIZE - DeclaredLength /\ hint.val > 0

FrameLengthsAgree(frame) ==
    /\ payload_length(frame) = USizeOf(frame.header.msg_length)
    /\ encoded_length(frame) = USizeOf(Header_SIZE + frame.header.msg_length)

\* C7: every frame from from_bytes (Ok) or from_message (Some) has a payload
\* of header.msg_length bytes and an encoded length of 6 + msg_length.
C7_FrameLengthsAgree ==
    /\ frame_res.tag = "Ok" => FrameLengthsAgree(frame_res.val)
    /\ msg_frame.tag = "Some" => FrameLengthsAgree(msg_frame.val)

StepOps == {"step_0", "step_1", "step_2", "step_3", "step_4"}

Rank(st) ==
    IF st.variant = "NotInitialized" THEN 0
    ELSE IF st.variant = "HandShake" THEN 1
    ELSE 2

IsHandShake(st, role) == st.variant = "HandShake" /\ st.role = role

\* C8: a step call only moves the State forward along NotInitialized ->
\* HandShake -> Transport; it becomes Transport only by a successful step_3
\* on HandShake(Responder) or a successful step_4 on HandShake(Initiator);
\* step_0, step_1 and step_2 keep the variant; no step call on a Transport
\* State yields a HandShake State.
C8_StepsOnlyMoveForward ==
    [][step_res'.op \in StepOps =>
         LET p == step_res'.peer
             s == state[p]
             t == state'[p]
         IN  /\ t.variant # "Dropped" => Rank(t) >= Rank(s)
             /\ (t.variant = "Transport" /\ s.variant # "Transport") =>
                   /\ step_res'.res.tag = "Ok"
                   /\ \/ step_res'.op = "step_3" /\ IsHandShake(s, "Responder")
                      \/ step_res'.op = "step_4" /\ IsHandShake(s, "Initiator")
             /\ step_res'.op \in {"step_0", "step_1", "step_2"} =>
                   t.variant = s.variant
             /\ s.variant = "Transport" => t.variant # "HandShake"]_vars

C8_Witness ==
    /\ step_res.op = "step_4" /\ step_res.res.tag = "Ok"
    /\ state[step_res.peer].variant = "Transport"
    /\ state[step_res.peer].codec.role = "Initiator"

\* C9: a step on a NotInitialized or Transport State returns
\* NotInHandShakeState; step_0, step_2, step_4 on HandShake(Responder) return
\* InvalidStepForResponder; step_1, step_3 on HandShake(Initiator) return
\* InvalidStepForInitiator.
C9_WrongPhaseOrRoleErrors ==
    [][step_res'.op \in StepOps =>
         LET s == state[step_res'.peer]
         IN  /\ s.variant \in {"NotInitialized", "Transport"} =>
                   step_res'.res = Err("NotInHandShakeState")
             /\ (IsHandShake(s, "Responder")
                   /\ step_res'.op \in {"step_0", "step_2", "step_4"}) =>
                   step_res'.res = Err("InvalidStepForResponder")
             /\ (IsHandShake(s, "Initiator")
                   /\ step_res'.op \in {"step_1", "step_3"}) =>
                   step_res'.res = Err("InvalidStepForInitiator")]_vars

C9_Witness ==
    /\ step_res.op = "step_1"
    /\ step_res.res = Err("InvalidStepForInitiator")
    /\ IsHandShake(state[step_res.peer], "Initiator")

\* an initiator initialized for the handshake that has not performed step_0
InitiatorBeforeStep0(st) == IsHandShake(st, "Initiator") /\ "step_0" \notin st.done

C17_NoPanicUnderTheLock ==
    proxy_res.res.tag = "Panic" => ~proxy_res.in_lock

\* the map before and after a returning add_job_id(job_id, up_id, prev)
AddJobIdPost(before, after, job_id, up_id, prev_job_id) ==
    /\ job_id \in DOMAIN after /\ after[job_id] = up_id
    /\ prev_job_id # None /\ prev_job_id.val # job_id
          => prev_job_id.val \notin DOMAIN after
    /\ \A j \in ProxyJobIds :
          j # job_id /\ prev_job_id # Some(j)
              => /\ j \in DOMAIN after <=> j \in DOMAIN before
                 /\ j \in DOMAIN before => after[j] = before[j]

\* C18: a returning add_job_id(job_id, up_id, prev_job_id) leaves
\* job_id -> up_id in the map, leaves no entry for a prev_job_id other than
\* job_id, removes nothing when prev_job_id is None, changes no other entry,
\* and the upstream_from_job_id(job_id) that follows it returns the upstream
\* up_id names.
C18_AddJobIdReplacesThePreviousEntry ==
    [][/\ (proxy_res'.op = "add_job_id" /\ proxy_res'.res.tag = "Ok")
          => AddJobIdPost(JOB_ID_TO_UPSTREAM_ID.map, JOB_ID_TO_UPSTREAM_ID'.map,
                          proxy_res'.job_id, proxy_res'.up_id,
                          proxy_res'.prev_job_id)
       /\ (/\ proxy_res.op = "add_job_id" /\ proxy_res.res.tag = "Ok"
           /\ proxy_res'.op = "upstream_from_job_id"
           /\ proxy_res'.job_id = proxy_res.job_id)
          => proxy_res'.res = get_upstream(proxy_res.up_id)]_vars

\* add_job_id(1, 1, Some(1)) has returned on a map that held 1 and another
\* entry: the entry for 1 is there, with the new upstream
C18_Witness ==
    /\ proxy_res.op = "add_job_id" /\ proxy_res.res.tag = "Ok"
    /\ proxy_res.job_id = 1 /\ proxy_res.prev_job_id = Some(1)
    /\ DOMAIN JOB_ID_TO_UPSTREAM_ID.map = {1, 2}
    /\ JOB_ID_TO_UPSTREAM_ID.map[1] = 1


\* the notify `n` is the one the slots `p` (SetNewPrevHash) and `j`
\* (NewExtendedMiningJob) determine
NotifyOfSlots(n, p, j) ==
    /\ n.job_id = to_string(p.job_id)
    /\ n.prev_hash = p.prev_hash
    /\ Ok(n.coin_base1) = HexBytes_try_from(j.coinbase_tx_prefix)
    /\ Ok(n.coin_base2) = HexBytes_try_from(j.coinbase_tx_suffix)
    /\ Len(n.merkle_branch) = Len(j.merkle_path)
    /\ \A i \in 1 .. Len(j.merkle_path) :
          Ok(n.merkle_branch[i]) = HexBytes_try_from(j.merkle_path[i])
    /\ n.version = j.version
    /\ n.bits = p.nbits
    /\ n.time = p.min_ntime
    /\ n.clean_jobs = FALSE

\* C19: whenever create_notify returns Some, job_id is the stringified
\* set_new_prev_hash.job_id, prev_hash is set_new_prev_hash.prev_hash,
\* coin_base1 / coin_base2 come from the job's coinbase_tx_prefix / suffix,
\* merkle_branch has one entry per merkle_path element in the same order,
\* version is the job's version, bits and time are the prev hash's nbits and
\* min_ntime, and clean_jobs is false for future and active jobs alike.
C19_NotifyIsAFunctionOfTheSlots ==
    [][notify_res' # notify_res /\ notify_res'.tag = "Some"
          => NotifyOfSlots(notify_res'.val, nmn.set_new_prev_hash.val,
                           nmn.new_extended_mining_job.val)]_vars

\* a notify made from a future job with two merkle path elements whose job
\* id is not the prev hash's
C19_Witness ==
    /\ notify_res.tag = "Some"
    /\ create_notify(nmn) = notify_res
    /\ nmn.new_extended_mining_job.val.min_ntime = None
    /\ nmn.new_extended_mining_job.val.job_id # nmn.set_new_prev_hash.val.job_id
    /\ Len(notify_res.val.merkle_branch) = 2
    /\ notify_res.val.merkle_branch[1] # notify_res.val.merkle_branch[2]

\* C20: for a SetNewPrevHash with job_id 79 (0x4f) joined with a
\* NewExtendedMiningJob, the notify create_notify returns carries the job_id
\* string "4f".
C20_JobId79IsTheString4f ==
    [][(/\ notify_res' # notify_res
        /\ notify_res'.tag = "Some"
        /\ nmn.set_new_prev_hash.val.job_id = 79)
          => notify_res'.val.job_id = <<52, 102>>]_vars


\* the Test { a: 456, b: 9, c: 67 } of the encode_decode example
ExampleTest ==
    <<[ty |-> "U32", n |-> 456], [ty |-> "U8", n |-> 9], [ty |-> "U24", n |-> 67]>>

\* C12: for every message m, to_bytes(m) succeeds and from_bytes of the
\* bytes it produced succeeds and returns a value equal to m.
C12_FromBytesOfToBytesIsTheValue ==
    /\ binary_res.op = "to_bytes" => binary_res.res.tag = "Ok"
    /\ binary_res.op = "from_bytes" /\ expected # None
          => binary_res.res = Ok(expected.val)

\* the example's Test has been encoded and decoded
C12_Witness ==
    /\ binary_res.op = "from_bytes"
    /\ expected = Some(ExampleTest)
    /\ encoded = <<200, 1, 0, 0, 9, 67, 0, 0>>
    /\ binary_res.res = Ok(ExampleTest)

\* C13: to_bytes(m) returns a vector of m.get_size() bytes, and the byte
\* count EncodableField::encode returns is EncodableField::get_size, the sum
\* of the sizes of the fields.
C13_EncodedLengthIsGetSize ==
    /\ binary_res.op = "to_bytes"
          => /\ binary_res.res.tag = "Ok"
             /\ Len(binary_res.res.val)
                   = EncodableField_get_size(EncodableField_from(expected.val))
    /\ binary_res.op = "encode" /\ binary_res.res.tag = "Ok"
          => binary_res.res.val
                = EncodableField_get_size(EncodableField_from(expected.val))

\* the example's Test, 8 bytes, has been encoded into a buffer of 9
C13_Witness ==
    /\ binary_res.op = "encode"
    /\ expected = Some(ExampleTest)
    /\ Len(encoded) = 9
    /\ binary_res.res = Ok(8)

\* C14: from_bytes of a bool field gives false for the byte 0x00, true for
\* 0x01, and the error NotABool(byte) for every other byte.
C14_BoolDecodingIsStrict ==
    binary_res.op = "from_bytes" /\ binary_res.structure = <<"Bool">>
        /\ Len(encoded) >= 1
        => binary_res.res =
              (IF encoded[1] = 0 THEN Ok(<<[ty |-> "Bool", b |-> FALSE]>>)
               ELSE IF encoded[1] = 1 THEN Ok(<<[ty |-> "Bool", b |-> TRUE]>>)
               ELSE Err(<<"NotABool", encoded[1]>>))

\* C15: a U24 can be made from x exactly when x < 2^24, and then its
\* encoding is the 3 little-endian bytes of x and decoding them returns x;
\* for 2^24 and above the construction fails with U24TooBig.
C15_U24RoundTripAndBound ==
    /\ binary_res.op = "U24::try_from"
          => binary_res.res =
                (IF expected.val < 16777216
                 THEN Ok([ty |-> "U24", n |-> expected.val])
                 ELSE Err(<<"U24TooBig", expected.val>>))
    /\ binary_res.op = "to_bytes" /\ binary_res.structure = <<"U24">>
          => binary_res.res =
                Ok(<<expected.val[1].n % 256, (expected.val[1].n \div 256) % 256,
                     expected.val[1].n \div 65536>>)
    /\ binary_res.op = "from_bytes" /\ binary_res.structure = <<"U24">>
        /\ expected # None
          => binary_res.res = Ok(expected.val)

\* the largest U24 has been encoded and decoded
C15_Witness ==
    /\ binary_res.op = "from_bytes"
    /\ expected = Some(<<[ty |-> "U24", n |-> 16777215]>>)
    /\ encoded = <<255, 255, 255>>
    /\ binary_res.res = Ok(expected.val)

\* the bounds the claim names
BoundOf(ty) ==
    CASE ty = "B032" -> 32 [] ty = "B0255" -> 255
      [] ty = "B064K" -> 65535 [] ty = "B016M" -> 16777215

IsValueExceedsMaxSize(res) == res.tag = "Err" /\ res.err[1] = "ValueExceedsMaxSize"

C30_SettersReplaceOnlyTheirSlot ==
    [][ /\ (nmn_last'.op = "new_extended_mining_job_msg" /\ nmn_last' # nmn_last)
           => /\ nmn'.new_extended_mining_job = nmn_last'.new_extended_mining_job
              /\ nmn'.set_new_prev_hash = nmn.set_new_prev_hash
              /\ notify_res' = notify_res
        /\ (nmn_last'.op = "set_new_prev_hash_msg" /\ nmn_last' # nmn_last)
           => /\ nmn'.set_new_prev_hash = nmn_last'.set_new_prev_hash
              /\ nmn'.new_extended_mining_job = nmn.new_extended_mining_job
              /\ notify_res' = notify_res ]_vars

\* a second job with the job_id of the one it replaced is in the slot; the
\* notify held is still the earlier one, not the one these slots would give
C30_Witness ==
    /\ nmn_last.op = "new_extended_mining_job_msg"
    /\ nmn_last.job_id_before = Some(nmn_last.new_extended_mining_job.val.job_id)
    /\ nmn.new_extended_mining_job = nmn_last.new_extended_mining_job
    /\ notify_res.tag = "Some"
    /\ create_notify(nmn).tag = "Some"
    /\ create_notify(nmn) # notify_res


\* C27: the extension type from_message puts in the header has bit 15 equal
\* to channel_msg and the low 15 bits of the extension_type passed in; the
\* operation applied twice with the same flag gives what it gives once, and
\* with channel_msg = true then false it gives the input with bit 15 cleared.
C27_ChannelBitIsAPureBitOperation ==
    (snd_args.built = "from_message" /\ snd_frame # None)
    => LET e == snd_args.extension_type
           c == snd_args.channel_msg
           r == snd_frame.val.header.extension_type
       IN  /\ r \div 32768 = (IF c THEN 1 ELSE 0)
           /\ r % 32768 = e % 32768
           /\ update_extension_type(r, c) = r
           /\ update_extension_type(update_extension_type(e, TRUE), FALSE)
                = e % 32768

\* a frame built with channel_msg = true from an extension type that had
\* bit 15 set already, and one built with channel_msg = false from it
C27_Witness ==
    /\ snd_args.built = "from_message"
    /\ snd_frame # None
    /\ snd_args.extension_type = 32769
    /\ snd_args.channel_msg
    /\ snd_frame.val.header.extension_type = 32769

\* the header bytes followed by the payload encoding of a frame
WireImage(frame) ==
    IF frame.variant = "Raw" THEN frame.serialized
    ELSE to_writer(Header_fields(frame.header), [i \in 1 .. Header_SIZE |-> 0]).dst
           \o to_writer(frame.payload.field,
                        [i \in 1 .. frame.payload.get_size.lo |-> 0]).dst

\* C29: serialize into a dst at least encoded_length() long returns Ok and
\* leaves the header bytes followed by the payload encoding at the front of
\* dst, for the Raw and the Payload variant alike; it does not panic.
C29_SerializeWritesHeaderThenPayload ==
    (/\ snd_out.frame # None
     /\ Len(snd_out.dst) >= encoded_length(snd_out.frame.val).lo)
    => /\ snd_out.res = Ok(<<>>)
       /\ SubSeq(snd_out.dst, 1, encoded_length(snd_out.frame.val).lo)
            = WireImage(snd_out.frame.val)



RECURSIVE RequiredSize(_, _, _, _)
\* the number of bytes the field markers structure[i..] require of `data`
\* from `offset` on, a length prefix counting for what it declares; a
\* prefix that is itself cut short requires its own bytes
RequiredSize(structure, data, i, offset) ==
    IF i > Len(structure) THEN offset
    ELSE IF structure[i] \in FixedTypes
    THEN RequiredSize(structure, data, i + 1, offset + Fixed_SIZE(structure[i]))
    ELSE LET h == Variable_HEADER_SIZE(structure[i])
         IN  IF Len(data) < offset + h THEN offset + h
             ELSE RequiredSize(structure, data, i + 1,
                      offset + h + from_le_bytes(SubSeq(data, offset + 1, offset + h)))

\* C28: from_bytes on a buffer shorter than its field markers require
\* returns the error OutOfBound: no panic, no field decoded.
C28_ShortBufferIsOutOfBound ==
    (/\ binary_res.op = "from_bytes"
     /\ Len(encoded) < RequiredSize(binary_res.structure, encoded, 1, 0))
    => binary_res.res = Err(<<"OutOfBound">>)


\* a version the configuration supports that lies inside the request's range
SupportedInRange(incoming, config) ==
    \E v \in config.min_supported_version .. config.max_supported_version :
        incoming.min_version <= v /\ v <= incoming.max_version

\* C23: handle_setup_connection answers SetupConnectionSuccess only when a
\* supported version lies inside [min_version, max_version], with
\* used_version inside that range, and answers SetupConnectionError when
\* the range excludes every supported version.
C23_SetupConnectionNegotiatesTheVersion ==
    setup_res.res # NotCalled
    => LET incoming == setup_res.incoming.val
           answer == setup_res.res.val
       IN  /\ setup_res.res.tag = "Ok"
           /\ IF SupportedInRange(incoming, setup_res.config.val)
              THEN answer.message = "SetupConnectionSuccess"
                     => /\ incoming.min_version <= answer.used_version
                        /\ answer.used_version <= incoming.max_version
              ELSE answer.message = "SetupConnectionError"

\* the variants each trait hands on to a handle_* method
Handled(role) ==
    IF role = "server" THEN {"AllocateMiningJobTokenSuccess", "CommitMiningJobSuccess"}
    ELSE {"AllocateMiningJobToken", "CommitMiningJob"}

\* C24: a job-declaration message the role does not handle, and a payload
\* that fails to parse, make handle_message_job_declaration return Err, for
\* the server-side and the client-side trait alike; it never panics.
C24_WrongMessageForTheRoleIsAnErr ==
    \A role \in {"server", "client"} :
        (/\ jd_res[role].res # NotCalled
         /\ \/ jd_res[role].message_type \notin Handled(role)
            \/ jd_res[role].payload = "malformed")
        => jd_res[role].res.tag = "Err"


\* the value under `key` is present and of JSON type `j`
Has(o, key, j) == key \in DOMAIN o /\ o[key].j = j

\* the value under `key` is absent, or a string that parses as hex
HexOrAbsent(o, key) ==
    key \in DOMAIN o
    => o[key].j = "String" /\ HexU32Be_try_from(o[key].s).tag = "Ok"

\* C21: a mining.configure response with version-rolling (a boolean) and
\* version-rolling.mask (hex) both present parses to version_rolling = Some
\* of the flag, the mask read as hex, and min-bit-count read as hex when
\* present and 0 when absent; minimum_difficulty is Some(b) exactly when
\* minimum-difficulty is present with the boolean b, and None when absent.
C21_ConfigureParsesTheVersionRollingFields ==
    (/\ v1_call.op = "Response -> Configure"
     /\ v1_call.input.val.result.j = "Object"
     /\ Has(v1_call.input.val.result.o, "version-rolling", "Bool")
     /\ Has(v1_call.input.val.result.o, "version-rolling.mask", "String")
     /\ HexOrAbsent(v1_call.input.val.result.o, "version-rolling.mask")
     /\ HexOrAbsent(v1_call.input.val.result.o, "version-rolling.min-bit-count")
     /\ ("minimum-difficulty" \in DOMAIN v1_call.input.val.result.o
           => v1_call.input.val.result.o["minimum-difficulty"].j = "Bool"))
    => LET o == v1_call.input.val.result.o
       IN  /\ v1_call.out.tag = "Ok"
           /\ v1_call.out.val.version_rolling =
                Some([version_rolling |-> o["version-rolling"].b,
                      version_rolling_mask |->
                        from_str_radix_16(o["version-rolling.mask"].s),
                      version_rolling_min_bit_count |->
                        IF "version-rolling.min-bit-count" \in DOMAIN o
                        THEN from_str_radix_16(o["version-rolling.min-bit-count"].s)
                        ELSE 0])
           /\ v1_call.out.val.minimum_difficulty =
                IF "minimum-difficulty" \in DOMAIN o
                THEN Some(o["minimum-difficulty"].b)
                ELSE None

\* the response of configure_response_parsing_no_vr_min_bit_count, parsed:
\* no min-bit-count, so 0; and the one with min-bit-count "00000005" differs
C21_Witness ==
    /\ v1_call.op = "Response -> Configure"
    /\ v1_call.input.val.result.j = "Object"
    /\ DOMAIN v1_call.input.val.result.o
          = {"version-rolling", "version-rolling.mask", "minimum-difficulty"}
    /\ v1_call.out =
          Ok([id |-> 0,
              version_rolling |-> Some([version_rolling |-> TRUE,
                                        version_rolling_mask |-> 536862720,
                                        version_rolling_min_bit_count |-> 0]),
              minimum_difficulty |-> Some(FALSE)])

LowerCase(str) == \A i \in 1 .. Len(str) : str[i] < 65 \/ str[i] > 70

\* a mining.notify whose hex strings are in the form this code writes:
\* lower-case digits, and eight of them for version, bits and time
InWrittenForm(msg) ==
    /\ msg.params.j = "Array"
    /\ [i \in DOMAIN msg.params.a |-> msg.params.a[i].j] = NotifyPattern
    /\ \A i \in {2, 3, 4, 6, 7, 8} : LowerCase(msg.params.a[i].s)
    /\ \A i \in DOMAIN msg.params.a[5].a :
          msg.params.a[5].a[i].j = "String" => LowerCase(msg.params.a[5].a[i].s)
    /\ \A i \in {6, 7, 8} : Len(msg.params.a[i].s) = 8

C25_SetVersionMaskMethodName ==
    v1_call.op = "SetVersionMask -> Message"
    => v1_call.out =
         Ok(Notification("mining.set_version_mask",
                JArrary(<<JString(format_08x(v1_call.input.val.version_mask))>>)))

\* the parts of a subscribe response
ExtraNonce1Of(response) == from_str_radix_16(response.result.a[2].s)
ExtraNonce2SizeOf(response) == response.result.a[3].n
SubscriptionsOf(response) == response.result.a[1].a

\* what stands between the opening `["mining.notify", "` and the closing `"]`
SubscriptionIdOf(response) ==
    LET str == SubscriptionsOf(response)[1].a[2].s
    IN  SubSeq(str, Len(<<91, 34, 109, 105, 110, 105, 110, 103, 46, 110, 111, 116, 105, 102, 121, 34, 44, 32, 34>>) + 1, Len(str) - Len(<<34, 93>>))

StartsWith(str, prefix) ==
    Len(str) >= Len(prefix) /\ SubSeq(str, 1, Len(prefix)) = prefix

C33_NotifyPairsMessagesOfOneJob ==
    (nmn_last.op = "create_notify" /\ notify_res.tag = "Some")
    => nmn.set_new_prev_hash.val.job_id = nmn.new_extended_mining_job.val.job_id

\* no call puts None back into a slot, and create_notify changes neither slot
SlotsAreKept ==
    /\ nmn.set_new_prev_hash # None => nmn'.set_new_prev_hash # None
    /\ nmn.new_extended_mining_job # None => nmn'.new_extended_mining_job # None
    /\ nmn_last'.op = "create_notify" => nmn' = nmn

\* a create_notify right after a create_notify returns what the first returned
RepeatedNotifyIsEqual ==
    (nmn_last.op = "create_notify" /\ nmn_last'.op = "create_notify")
    => notify_res' = notify_res

\* C35: no call resets a slot to None and create_notify changes no slot;
\* once create_notify has returned Some, every later create_notify returns
\* Some (notify_res holds the outcome of the latest call); and two
\* create_notify calls in a row return equal notifies.
C35_SlotsAreNeverResetAndNotifyStaysSome ==
    [][/\ SlotsAreKept
       /\ RepeatedNotifyIsEqual
       /\ notify_res.tag = "Some" => notify_res'.tag = "Some"]_vars

\* the part of C35 that does not depend on the conversions in create_notify
SlotsAreNeverReset == [][SlotsAreKept /\ RepeatedNotifyIsEqual]_vars


\* is_future of the job of the given kind, as the code of that type computes it
JobIsFuture(kind) ==
    IF kind = "NewMiningJob"
    THEN NewMiningJob_is_future(mining_job.NewMiningJob)
    ELSE NewExtendedMiningJob_is_future(mining_job.NewExtendedMiningJob)

\* C31: for both job types, is_future() is true exactly when min_ntime is
\* empty; after set_future() the job is future; after set_no_future(t) it is
\* not and min_ntime holds exactly t; both setters leave every other field,
\* and the other job, as they were.
C31_FutureIsEmptyMinNtime ==
    /\ job_call.op = "is_future"
       => job_call.res = Some(Len(mining_job[job_call.kind].min_ntime) = 0)
    /\ job_call.op = "set_future"
       => /\ JobIsFuture(job_call.kind)
          /\ mining_job[job_call.kind].min_ntime = <<>>
    /\ job_call.op = "set_no_future"
       => /\ ~JobIsFuture(job_call.kind)
          /\ mining_job[job_call.kind].min_ntime = <<job_call.min_ntime.val>>
    /\ job_call.op \in {"set_future", "set_no_future"}
       => \A kind \in JobKinds :
             [mining_job[kind] EXCEPT !.min_ntime = job_call.before[kind].min_ntime]
               = job_call.before[kind]

\* an extended job that was active with another time is given a new one
C31_Witness ==
    /\ job_call.op = "set_no_future"
    /\ job_call.kind = "NewExtendedMiningJob"
    /\ job_call.before.NewExtendedMiningJob.min_ntime = <<0>>
    /\ job_call.before.NewExtendedMiningJob.job_id = 79
    /\ mining_job.NewExtendedMiningJob.min_ntime = <<1347323577>>
    /\ mining_job.NewExtendedMiningJob.merkle_path = <<Hash1>>


\* the JSON type Configure::try_from reads each key as
ConfigureType(k) ==
    IF k \in {"version-rolling", "minimum-difficulty"} THEN "Bool" ELSE "String"

\* some key of the object is present with another JSON type
WrongType(o) == \E k \in DOMAIN o : o[k].j # ConfigureType(k)

\* the key is present with a string that is no hex number
BadHex(o, k) ==
    k \in DOMAIN o /\ o[k].j = "String" /\ HexU32Be_try_from(o[k].s).tag = "Err"

\* version-rolling and mask are not both there, and not all three keys are absent
Incomplete(o) ==
    /\ ~({"version-rolling", "version-rolling.mask"} \subseteq DOMAIN o)
    /\ DOMAIN o \cap {"version-rolling", "version-rolling.mask",
                      "version-rolling.min-bit-count"} # {}

\* C32 as stated: with the three version-rolling keys absent the result has
\* version_rolling = None; an incomplete set of them is
\* Err(UnexpectedObjectParams); and so is every response in which a present
\* key has the wrong JSON type.
C32_ConfigureRejectsIncompleteOrIllTyped ==
    (v1_call.op = "Response -> Configure" /\ v1_call.input.val.result.j = "Object")
    => LET o == v1_call.input.val.result.o
       IN  /\ (DOMAIN o \subseteq {"minimum-difficulty"} /\ ~WrongType(o))
              => v1_call.out.tag = "Ok" /\ v1_call.out.val.version_rolling = None
           /\ Incomplete(o) => v1_call.out = Err(<<"UnexpectedObjectParams">>)
           /\ WrongType(o) => v1_call.out = Err(<<"UnexpectedObjectParams">>)

\* C32: as above, but a key of the wrong JSON type gives
\* Err(UnexpectedObjectParams) when no hex string of the response fails to
\* parse; when one does, the result is still an Err.
C32_ConfigureRejectsIncompleteOrIllTypedAfterHex ==
    (v1_call.op = "Response -> Configure" /\ v1_call.input.val.result.j = "Object")
    => LET o == v1_call.input.val.result.o
       IN  /\ (DOMAIN o \subseteq {"minimum-difficulty"} /\ ~WrongType(o))
              => v1_call.out.tag = "Ok" /\ v1_call.out.val.version_rolling = None
           /\ Incomplete(o) => v1_call.out = Err(<<"UnexpectedObjectParams">>)
           /\ WrongType(o) => v1_call.out.tag = "Err"
           /\ (/\ WrongType(o)
               /\ ~BadHex(o, "version-rolling.mask")
               /\ ~BadHex(o, "version-rolling.min-bit-count"))
              => v1_call.out = Err(<<"UnexpectedObjectParams">>)

\* a response with the mask but no version-rolling flag was rejected
C32_Witness ==
    /\ v1_call.op = "Response -> Configure"
    /\ v1_call.input.val.result.j = "Object"
    /\ DOMAIN v1_call.input.val.result.o
          = {"version-rolling.mask", "minimum-difficulty"}
    /\ ~WrongType(v1_call.input.val.result.o)
    /\ ~BadHex(v1_call.input.val.result.o, "version-rolling.mask")
    /\ v1_call.out = Err(<<"UnexpectedObjectParams">>)


\* the entry is a 2-element array of strings
PairOfStrings(e) ==
    /\ e.j = "Array"
    /\ Len(e.a) = 2
    /\ e.a[1].j = "String"
    /\ e.a[2].j = "String"

\* the result is an array of the shape [array, string, number]
SubscribeShape(result) ==
    /\ result.j = "Array"
    /\ [i \in DOMAIN result.a |-> result.a[i].j] = <<"Array", "String", "Number">>

\* the result has the shape and every subscription entry is a pair of strings
SubscribeWellFormed(result) ==
    /\ SubscribeShape(result)
    /\ \A i \in DOMAIN result.a[1].a : PairOfStrings(result.a[1].a[i])

\* C38: Subscribe::try_from(&Response) never panics; a result that is not
\* of the shape [array, string, number], or a subscription entry that is not
\* a pair of strings, gives Err(UnexpectedArrayParams) or
\* Err(ImpossibleToParseResultField); it is Ok only when every entry is a
\* pair of strings.
C38_SubscribeParsingNeverPanics ==
    v1_call.op = "Response -> Subscribe"
    => /\ v1_call.out.tag # "Panic"
       /\ ~SubscribeWellFormed(v1_call.input.val.result)
          => v1_call.out \in {Err(<<"UnexpectedArrayParams">>),
                              Err(<<"ImpossibleToParseResultField">>)}
       /\ v1_call.out.tag = "Ok" => SubscribeWellFormed(v1_call.input.val.result)


\* the calls of Subscribe::try_from that do not return
SubscribeReturns == v1_call.op = "Response -> Subscribe" => v1_call.out.tag # "Panic"


\* bit i (0 the lowest) of a u32 held as two halves
BitOf(a, i) ==
    IF i < 16 THEN (a.lo \div (2 ^ i)) % 2 ELSE (a.hi \div (2 ^ (i - 16))) % 2

\* C39: VersionRollingParams::new(m, c) is Ok for every 32-bit m and every
\* c, with version_rolling = true, min-bit-count = c, and a mask that has
\* bit i of m for i in 13..28 and 0 in every other bit; it is never
\* Err(InvalidVersionMask).
C39_VersionRollingParamsNewMasksAndNeverFails ==
    v1_call.op = "VersionRollingParams::new"
    => /\ v1_call.out.tag = "Ok"
       /\ v1_call.out.val.version_rolling = TRUE
       /\ v1_call.out.val.version_rolling_min_bit_count
            = v1_call.input.val.version_rolling_min_bit_count
       /\ \A i \in 0 .. 31 :
             BitOf(v1_call.out.val.version_rolling_mask, i)
               = IF i \in 13 .. 28
                 THEN BitOf(v1_call.input.val.version_rolling_mask, i)
                 ELSE 0

\* the mask 0xffffffff came back as 0x1fffe000
C39_Witness ==
    /\ v1_call.op = "VersionRollingParams::new"
    /\ v1_call.input.val.version_rolling_mask = U32Halves(65535, 65535)
    /\ v1_call.input.val.version_rolling_min_bit_count = U32Halves(0, 5)
    /\ v1_call.out.tag = "Ok"
    /\ v1_call.out.val.version_rolling_mask = U32Halves(8191, 57344)


\* the errors of a step called in the wrong state or by the wrong role
WrongStepErrors ==
    {Err("NotInHandShakeState"), Err("InvalidStepForInitiator"),
     Err("InvalidStepForResponder")}

\* C36: a step_0, step_1 or step_2 call that fails with NotInHandShakeState,
\* InvalidStepForInitiator or InvalidStepForResponder leaves the State of
\* the peer that called it as it was; take() leaves NotInitialized and
\* returns the State held before.
C36_FailedStepKeepsTheState ==
    [][/\ (step_res'.op \in {"step_0", "step_1", "step_2"}
             /\ step_res'.res \in WrongStepErrors)
          => state' = state
       /\ step_res'.op = "take"
          => /\ state'[step_res'.peer] = NotInitialized
             /\ step_res'.res = Ok(state[step_res'.peer])
             /\ \A p \in Peers \ {step_res'.peer} : state'[p] = state[p]]_vars

\* an initiator that has done step_0 was asked for step_1 and still holds
\* its handshake
C36_Witness ==
    /\ step_res.op = "step_1"
    /\ step_res.res = Err("InvalidStepForInitiator")
    /\ state[step_res.peer] = HandShake([role |-> "Initiator", done |-> {"step_0"}])


RECURSIVE FieldOffset(_, _)
\* where field i of the message starts in its encoding: the sizes of the
\* fields before it
FieldOffset(m, i) ==
    IF i = 1 THEN 0
    ELSE FieldOffset(m, i - 1) + EncodableField_get_size(EncodableField_from(<<m[i - 1]>>))

\* C37: from_bytes of the encoding b of a message followed by any suffix
\* succeeds and returns the message, as from_bytes(b) does: field i is
\* decoded from the slice that starts where field i - 1 ended, the first at
\* offset 0, and the bytes after the last field are ignored.
C37_TrailingBytesAreIgnored ==
    (/\ binary_res.op = "from_bytes"
     /\ expected # None
     /\ Len(encoded) > EncodableField_get_size(EncodableField_from(expected.val)))
    => LET m == expected.val
           b == SubSeq(encoded, 1, EncodableField_get_size(EncodableField_from(m)))
       IN  /\ binary_res.res.tag = "Ok"
           /\ binary_res.res = Decodable_from_bytes(binary_res.structure, b, Panic(311))
           /\ Len(binary_res.res.val) = Len(m)
           /\ \A i \in DOMAIN m :
                 LET size == EncodableField_get_size(EncodableField_from(<<m[i]>>))
                     slice == SubSeq(encoded, FieldOffset(m, i) + 1, FieldOffset(m, i) + size)
                 IN  <<binary_res.res.val[i]>>
                       = Decodable_from_bytes(<<m[i].ty>>, slice, Panic(311)).val

\* SetExtranoncePrefix with a two-byte prefix, followed by three more bytes
C37_Witness ==
    /\ binary_res.op = "from_bytes"
    /\ expected = Some(<<[ty |-> "U32", n |-> 456], [ty |-> "B032", inner |-> <<1, 2>>]>>)
    /\ encoded = <<200, 1, 0, 0, 2, 1, 2, 1, 2, 3>>
    /\ binary_res.res = Ok(expected.val)


\* the map add_job_id leaves when nothing comes in between
MapAfter(call) ==
    HashMap_insert(IF call.prev_job_id = None THEN call.before
                   ELSE HashMap_remove(call.before, call.prev_job_id.val),
                   call.job_id, call.up_id)

\* C34: a thread that reads the job map while add_job_id(job_id, up_id,
\* Some(prev_job_id)) is running reads the map as it was before the call or
\* as it is after it, never a map from which prev_job_id is gone and which
\* does not yet hold job_id.
C34_AddJobIdIsAtomicForObservers ==
    (observer.call # None /\ observer.call.val.prev_job_id # None)
    => \/ observer.map = observer.call.val.before
       \/ observer.map = MapAfter(observer.call.val)

=============================================================================
